---- MODULE Spec2Model ----
(***************************************************************************)
(* X-Ray ingestion core: the job queue, the worker pool, the processors    *)
(* and the data-access layer (raw SQL variant) over the four tables runs,  *)
(* steps, step_summaries and candidates.                                   *)
(*                                                                         *)
(* A table is a set of rows; a row is the record type the data-access      *)
(* layer reads and writes (RunRecord, StepRecord, StepSummaryRecord,       *)
(* CandidateRecord).  The audit columns created_at / updated_at, which no  *)
(* record type carries, are not part of a row.                             *)
(***************************************************************************)
EXTENDS Integers, Sequences, FiniteSets, TLC

-----------------------------------------------------------------------------
(* Values *)

\* SQL NULL / JS undefined of a string-valued field.
NULL == "NULL"

\* JS values of a numeric or object field: undefined, null, a number, an object.
Undef == [t |-> "undefined", v |-> 0]
NullV == [t |-> "null", v |-> 0]
Num(n) == [t |-> "number", v |-> n]
Obj(f) == [t |-> "object", v |-> f]

\* A JS string that is not the text of a number, sent where a number belongs.
NotNumeric == [t |-> "string", v |-> 0]

\* JS truthiness of a string-valued field (undefined and "" are falsy).
Truthy(x) == x \notin {NULL, ""}

\* `x || 0` on a numeric field.
OrZero(x) == IF x.t = "number" THEN x.v ELSE 0

\* The SQL value a query parameter becomes: undefined and null are both NULL.
SqlParam(x) == IF x.t = "number" THEN x ELSE NullV

\* COALESCE(a, b)
Coalesce(a, b) == IF a = NullV THEN b ELSE a

StepTypes == {"filter", "rank", "generate", "select"}
Decisions == {"accepted", "rejected"}
RunStatuses == {"running", "success", "error"}

\* Values `new Date().toISOString()` can take when a placeholder run is made:
\* an instant of its own, or the very instant a run reported as its start.
NowValues == {"t0", "t1"}

-----------------------------------------------------------------------------
(* models/run.ts *)

NoRow == [none |-> TRUE]

getRun(rs, runId) ==
  IF \E r \in rs : r.run_id = runId
  THEN CHOOSE r \in rs : r.run_id = runId
  ELSE NoRow

\* A run upsert whose conflict clause overwrites every column.
createRun_overwriteAll(rs, run) ==
  { r \in rs : r.run_id # run.run_id }
  \cup { [run_id |-> run.run_id, pipeline |-> run.pipeline,
           input |-> run.input, started_at |-> run.started_at,
           ended_at |-> NULL, status |-> run.status] }

\* INSERT ... ON CONFLICT (run_id) DO UPDATE SET ended_at = EXCLUDED.ended_at,
\* status = EXCLUDED.status.  ended_at is not among the inserted columns, so
\* EXCLUDED.ended_at is NULL.
createRun(rs, run) ==
  IF \E r \in rs : r.run_id = run.run_id
  THEN { IF r.run_id = run.run_id
         THEN [r EXCEPT !.ended_at = NULL, !.status = run.status]
         ELSE r : r \in rs }
  ELSE rs \cup { [run_id |-> run.run_id, pipeline |-> run.pipeline,
                  input |-> run.input, started_at |-> run.started_at,
                  ended_at |-> NULL, status |-> run.status] }

\* A placeholder INSERT whose conflict clause overwrites the stored row.
insertPlaceholderRun_overwrite(rs, runId, pipeline, now) ==
  { r \in rs : r.run_id # runId }
  \cup { [run_id |-> runId,
           pipeline |-> IF Truthy(pipeline) THEN pipeline ELSE "unknown",
           input |-> "auto_created", started_at |-> now,
           ended_at |-> NULL, status |-> "running"] }

\* A placeholder INSERT that stores the hint as given, absent or not.
insertPlaceholderRun_noDefault(rs, runId, pipeline, now) ==
  IF \E r \in rs : r.run_id = runId
  THEN rs
  ELSE rs \cup { [run_id |-> runId, pipeline |-> pipeline,
                  input |-> "auto_created", started_at |-> now,
                  ended_at |-> NULL, status |-> "running"] }

\* The INSERT of ensureRunExists: ON CONFLICT (run_id) DO NOTHING.
insertPlaceholderRun(rs, runId, pipeline, now) ==
  IF \E r \in rs : r.run_id = runId
  THEN rs
  ELSE rs \cup { [run_id |-> runId,
                  pipeline |-> IF Truthy(pipeline) THEN pipeline ELSE "unknown",
                  input |-> "auto_created", started_at |-> now,
                  ended_at |-> NULL, status |-> "running"] }

\* ensureRunExists run without interruption: SELECT, then the INSERT if no row.
ensureRunExists(rs, runId, pipeline, now) ==
  IF getRun(rs, runId) # NoRow THEN rs
  ELSE insertPlaceholderRun(rs, runId, pipeline, now)

updateRun(rs, runId, updates) ==
  LET setEnded == Truthy(updates.ended_at)
      setStatus == Truthy(updates.status)
  IN IF ~setEnded /\ ~setStatus THEN rs
     ELSE { IF r.run_id = runId
            THEN [r EXCEPT !.ended_at = IF setEnded THEN updates.ended_at ELSE @,
                           !.status = IF setStatus THEN updates.status ELSE @]
            ELSE r : r \in rs }

-----------------------------------------------------------------------------
(* models/step.ts *)

getStep(ss, stepId) ==
  IF \E s \in ss : s.step_id = stepId
  THEN CHOOSE s \in ss : s.step_id = stepId
  ELSE NoRow

\* A statement's outcome: ok = FALSE is a raised constraint violation, which
\* leaves the table as it was.
Ok(tbl) == [ok |-> TRUE, tbl |-> tbl]
Err(tbl) == [ok |-> FALSE, tbl |-> tbl]

\* A step upsert whose conflict clause sets the counts without COALESCE.
createStep_overwriteCounts(ss, rs, step) ==
  IF getRun(rs, step.run_id) = NoRow \/ step.type \notin StepTypes
  THEN Err(ss)
  ELSE Ok({ s \in ss : s.step_id # step.step_id }
          \cup { [step_id |-> step.step_id, run_id |-> step.run_id,
                   name |-> step.name, type |-> step.type,
                   input_count |-> SqlParam(step.input_count),
                   output_count |-> SqlParam(step.output_count),
                   metadata |-> step.metadata] })

\* A step upsert whose conflict clause keeps the stored row.
createStep_keepExisting(ss, rs, step) ==
  IF getRun(rs, step.run_id) = NoRow \/ step.type \notin StepTypes
  THEN Err(ss)
  ELSE IF \E s \in ss : s.step_id = step.step_id
  THEN Ok(ss)
  ELSE Ok(ss \cup { [step_id |-> step.step_id, run_id |-> step.run_id,
                     name |-> step.name, type |-> step.type,
                     input_count |-> SqlParam(step.input_count),
                     output_count |-> SqlParam(step.output_count),
                     metadata |-> step.metadata] })

\* INSERT INTO steps ... ON CONFLICT (step_id) DO UPDATE.  steps.run_id
\* REFERENCES runs(run_id); type is CHECKed.
createStep(ss, rs, step) ==
  IF getRun(rs, step.run_id) = NoRow \/ step.type \notin StepTypes
  THEN Err(ss)
  ELSE IF \E s \in ss : s.step_id = step.step_id
  THEN Ok({ IF s.step_id = step.step_id
            THEN [s EXCEPT !.run_id = step.run_id, !.name = step.name,
                           !.type = step.type,
                           !.input_count = Coalesce(SqlParam(step.input_count), @),
                           !.output_count = Coalesce(SqlParam(step.output_count), @),
                           !.metadata = step.metadata]
            ELSE s : s \in ss })
  ELSE Ok(ss \cup { [step_id |-> step.step_id, run_id |-> step.run_id,
                     name |-> step.name, type |-> step.type,
                     input_count |-> SqlParam(step.input_count),
                     output_count |-> SqlParam(step.output_count),
                     metadata |-> step.metadata] })

\* A placeholder INSERT that does not check steps.run_id against runs.
insertPlaceholderStep_noForeignKey(ss, rs, stepId, runId) ==
  IF \E s \in ss : s.step_id = stepId THEN Ok(ss)
  ELSE Ok(ss \cup { [step_id |-> stepId, run_id |-> runId,
                     name |-> "auto-created", type |-> "generate",
                     input_count |-> NullV, output_count |-> NullV,
                     metadata |-> "auto_created"] })

\* The INSERT of ensureStepExists: ON CONFLICT (step_id) DO NOTHING.
insertPlaceholderStep(ss, rs, stepId, runId) ==
  IF \E s \in ss : s.step_id = stepId THEN Ok(ss)
  ELSE IF getRun(rs, runId) = NoRow THEN Err(ss)
  ELSE Ok(ss \cup { [step_id |-> stepId, run_id |-> runId,
                     name |-> "auto-created", type |-> "generate",
                     input_count |-> NullV, output_count |-> NullV,
                     metadata |-> "auto_created"] })

\* ensureStepExists run without interruption; the catch swallows the error.
ensureStepExists(ss, rs, stepId, runId) ==
  IF getStep(ss, stepId) # NoRow THEN ss
  ELSE insertPlaceholderStep(ss, rs, stepId, runId).tbl

\* A summary upsert that adds the new counts to the stored ones on conflict.
upsertStepSummary_increment(sums, ss, stepId, summary) ==
  IF \A s \in ss : s.step_id # stepId THEN [ok |-> FALSE, tbl |-> sums]
  ELSE [ok |-> TRUE, tbl |->
         { m \in sums : m.step_id # stepId }
         \cup { [step_id |-> stepId,
                 rejected |-> summary.rejected
                              + (IF \E m \in sums : m.step_id = stepId
                                 THEN (CHOOSE m \in sums : m.step_id = stepId).rejected ELSE 0),
                 accepted |-> summary.accepted,
                 rejection_breakdown |-> summary.rejection_breakdown] }]

\* A summary upsert that merges the new breakdown into the stored one on conflict.
upsertStepSummary_merge(sums, ss, stepId, summary) ==
  IF \A s \in ss : s.step_id # stepId THEN [ok |-> FALSE, tbl |-> sums]
  ELSE LET old == IF \E m \in sums : m.step_id = stepId
                  THEN (CHOOSE m \in sums : m.step_id = stepId).rejection_breakdown
                  ELSE <<>>
           new == summary.rejection_breakdown
       IN [ok |-> TRUE, tbl |->
            { m \in sums : m.step_id # stepId }
            \cup { [step_id |-> stepId, rejected |-> summary.rejected,
                    accepted |-> summary.accepted,
                    rejection_breakdown |->
                      [k \in DOMAIN old \cup DOMAIN new |->
                         IF k \in DOMAIN new THEN new[k] ELSE old[k]]] }]

\* A summary upsert on a table without the foreign key to steps.
upsertStepSummary_noForeignKey(sums, ss, stepId, summary) ==
  Ok({ m \in sums : m.step_id # stepId }
     \cup { [step_id |-> stepId, rejected |-> summary.rejected,
             accepted |-> summary.accepted,
             rejection_breakdown |-> summary.rejection_breakdown] })

\* First statement of updateStepSummary: INSERT INTO step_summaries ...
\* ON CONFLICT (step_id) DO UPDATE.  step_summaries.step_id REFERENCES steps.
upsertStepSummary(sums, ss, stepId, summary) ==
  IF getStep(ss, stepId) = NoRow THEN Err(sums)
  ELSE Ok({ m \in sums : m.step_id # stepId }
          \cup { [step_id |-> stepId, rejected |-> summary.rejected,
                  accepted |-> summary.accepted,
                  rejection_breakdown |-> summary.rejection_breakdown] })

\* Whether updateStepSummary issues its second statement.
updatesCounts(inputCount, outputCount) ==
  inputCount # Undef \/ outputCount # Undef

\* A count update that adds the new counts to the stored ones.
updateStepCounts_add(ss, stepId, inputCount, outputCount) ==
  { IF s.step_id = stepId
    THEN [s EXCEPT !.input_count = IF inputCount # Undef
                                   THEN Num(OrZero(@) + OrZero(inputCount)) ELSE @,
                   !.output_count = IF outputCount # Undef
                                    THEN Num(OrZero(@) + OrZero(outputCount)) ELSE @]
    ELSE s : s \in ss }

\* Second statement of updateStepSummary: UPDATE steps SET input_count = ..,
\* output_count = .. WHERE step_id = ..
updateStepCounts(ss, stepId, inputCount, outputCount) ==
  { IF s.step_id = stepId
    THEN [s EXCEPT !.input_count = IF inputCount # Undef THEN SqlParam(inputCount) ELSE @,
                   !.output_count = IF outputCount # Undef THEN SqlParam(outputCount) ELSE @]
    ELSE s : s \in ss }

\* A threshold or a rate as the fraction num / den, den # 0.
Rat(n, d) == [num |-> n, den |-> d]

\* a >= b on fractions.
RatGreater_orEqual(a, b) ==
  IF a.den * b.den > 0
  THEN a.num * b.den >= b.num * a.den
  ELSE a.num * b.den <= b.num * a.den

\* a > b on fractions.
RatGreater(a, b) ==
  IF a.den * b.den > 0
  THEN a.num * b.den > b.num * a.den
  ELSE a.num * b.den < b.num * a.den

\* A rate that is 0 when the sum is 0.
rejection_rate_zeroForEmpty(m) ==
  IF m.rejected + m.accepted = 0 THEN [num |-> 0, den |-> 1]
  ELSE [num |-> m.rejected, den |-> m.rejected + m.accepted]

\* ss.rejected::float / NULLIF(ss.rejected + ss.accepted, 0): NULL when the
\* sum is 0.
rejection_rate(m) ==
  IF m.rejected + m.accepted = 0 THEN NullV
  ELSE Rat(m.rejected, m.rejected + m.accepted)

\* The rows of FROM steps s JOIN step_summaries ss ON s.step_id = ss.step_id
\* WHERE s.type = 'filter' AND rejection_rate > $1 (a NULL rate is not > $1).
highRejectionRows(ss, sums, T) ==
  { [step_id |-> p[1].step_id, run_id |-> p[1].run_id, name |-> p[1].name,
     type |-> p[1].type, metadata |-> p[1].metadata,
     rejected |-> p[2].rejected, accepted |-> p[2].accepted,
     rejection_rate |-> rejection_rate(p[2])] :
      p \in { q \in ss \X sums :
                /\ q[1].step_id = q[2].step_id
                /\ q[1].type = "filter"
                /\ rejection_rate(q[2]) # NullV
                /\ RatGreater(rejection_rate(q[2]), T) } }

\* ORDER BY rejection_rate DESC: every order of the rows in which no row comes
\* before a row of greater rate.
orderByRateDesc(rows) ==
  { q \in [1..Cardinality(rows) -> rows] :
      /\ \A i, j \in 1..Cardinality(rows) : i # j => q[i] # q[j]
      /\ \A i, j \in 1..Cardinality(rows) :
           i < j => ~RatGreater(q[j].rejection_rate, q[i].rejection_rate) }

\* findFilteringStepsWithHighRejectionRate(threshold): the results the query
\* can return.
findFilteringStepsWithHighRejectionRate(ss, sums, T) ==
  orderByRateDesc(highRejectionRows(ss, sums, T))

-----------------------------------------------------------------------------
(* models/candidate.ts *)

\* A candidate INSERT whose conflict clause keeps the stored row (DO NOTHING).
createCandidate_keepFirst(cs, ss, candidate) ==
  IF getStep(ss, candidate.step_id) = NoRow \/ candidate.decision \notin Decisions
  THEN Err(cs)
  ELSE IF \E c \in cs : c.candidate_id = candidate.candidate_id
                        /\ c.step_id = candidate.step_id
  THEN Ok(cs)
  ELSE Ok(cs \cup { [candidate_id |-> candidate.candidate_id,
                     step_id |-> candidate.step_id,
                     decision |-> candidate.decision,
                     score |-> SqlParam(candidate.score),
                     reason |-> candidate.reason] })

\* INSERT INTO candidates ... ON CONFLICT (candidate_id, step_id) DO UPDATE.
\* candidates.step_id REFERENCES steps(step_id); decision is CHECKed; score
\* is NUMERIC.
createCandidate(cs, ss, candidate) ==
  IF \/ getStep(ss, candidate.step_id) = NoRow
     \/ candidate.decision \notin Decisions
     \/ candidate.score = NotNumeric
  THEN Err(cs)
  ELSE Ok({ c \in cs : ~(c.candidate_id = candidate.candidate_id
                          /\ c.step_id = candidate.step_id) }
          \cup { [candidate_id |-> candidate.candidate_id,
                  step_id |-> candidate.step_id,
                  decision |-> candidate.decision,
                  score |-> SqlParam(candidate.score),
                  reason |-> candidate.reason] })

\* createCandidatesBulk: the rows a transaction has written so far (`written`,
\* in order) take effect together at COMMIT.
commitCandidates(cs, written) ==
  { c \in cs : \A i \in 1..Len(written) :
                 ~(c.candidate_id = written[i].candidate_id
                   /\ c.step_id = written[i].step_id) }
  \cup { written[i] : i \in { n \in 1..Len(written) :
                               \A m \in (n + 1)..Len(written) :
                                 ~(written[m].candidate_id = written[n].candidate_id
                                   /\ written[m].step_id = written[n].step_id) } }

\* One INSERT of createCandidatesBulk inside its transaction: the row it adds to
\* the transaction's writes, or the constraint violation that aborts it.
bulkInsert(written, ss, candidate) ==
  IF \/ getStep(ss, candidate.step_id) = NoRow
     \/ candidate.decision \notin Decisions
     \/ candidate.score = NotNumeric
  THEN Err(written)
  ELSE Ok(Append(written, [candidate_id |-> candidate.candidate_id,
                           step_id |-> candidate.step_id,
                           decision |-> candidate.decision,
                           score |-> SqlParam(candidate.score),
                           reason |-> candidate.reason]))

RECURSIVE bulkInsertAll(_, _, _)
\* The INSERTs of createCandidatesBulk from the first to the last, stopping at
\* the first that fails.
bulkInsertAll(written, ss, todo) ==
  IF todo = <<>> THEN Ok(written)
  ELSE LET res == bulkInsert(written, ss, Head(todo))
       IN IF res.ok THEN bulkInsertAll(res.tbl, ss, Tail(todo)) ELSE Err(<<>>)

\* createCandidatesBulk run without interruption: BEGIN, the INSERTs, COMMIT,
\* or ROLLBACK and rethrow.
createCandidatesBulk(cs, ss, cands) ==
  IF cands = <<>> THEN Ok(cs)
  ELSE LET res == bulkInsertAll(<<>>, ss, cands)
       IN IF res.ok THEN Ok(commitCandidates(cs, res.tbl)) ELSE Err(cs)

-----------------------------------------------------------------------------
(* queue/processors *)

\* A processor's outcome on the Store: thrown = TRUE fails the attempt.
Store(rs, ss, sums, cs) ==
  [runs |-> rs, steps |-> ss, step_summaries |-> sums, candidates |-> cs]
Returned(st) == [thrown |-> FALSE, st |-> st]
Thrown(st) == [thrown |-> TRUE, st |-> st]

RECURSIVE SumOver(_, _)
SumOver(f, keys) ==
  IF keys = {} THEN 0
  ELSE LET k == CHOOSE x \in keys : TRUE
       IN f[k] + SumOver(f, keys \ {k})

\* Object.values(o).reduce((sum, value) => sum + value, 0)
SumValues(o) == SumOver(o, DOMAIN o)

\* The empty object {}
EmptyObject == <<>>

\* The `accepted` processUpdateStepSummary computes: output_count || 0
acceptedOf(d) == OrZero(d.output_count)

\* A `rejected` that ignores the breakdown and always uses the counts.
rejectedOf_countsOnly(d) == OrZero(d.input_count) - OrZero(d.output_count)

\* The `rejected` processUpdateStepSummary computes.
rejectedOf(d) ==
  IF d.rejection_breakdown.t = "object"
  THEN SumValues(d.rejection_breakdown.v)
  ELSE OrZero(d.input_count) - acceptedOf(d)

\* The StepSummaryRecord processUpdateStepSummary hands to updateStepSummary.
summaryOf(d) ==
  [step_id |-> d.step_id,
   rejected |-> rejectedOf(d),
   accepted |-> acceptedOf(d),
   rejection_breakdown |-> IF d.rejection_breakdown.t = "object"
                           THEN d.rejection_breakdown.v ELSE EmptyObject]

\* The RunRecord processCreateRun hands to createRun.
runOf(d) ==
  [run_id |-> d.run_id, pipeline |-> d.pipeline, input |-> d.input,
   started_at |-> d.started_at,
   status |-> IF Truthy(d.status) THEN d.status ELSE "running"]

\* The StepRecord processCreateStep hands to createStep (no counts).
stepOf(d) ==
  [step_id |-> d.step_id, run_id |-> d.run_id, name |-> d.name, type |-> d.type,
   input_count |-> Undef, output_count |-> Undef, metadata |-> d.metadata]

\* The CandidateRecord processCreateCandidate hands to createCandidate.
candidateOf(d) ==
  [candidate_id |-> d.candidate_id, step_id |-> d.step_id,
   decision |-> d.decision, score |-> d.score, reason |-> d.reason]

\* A filter that looks at the decision only.
validEntry_decisionOnly(c) ==
  Truthy(c.decision) /\ c.decision \in Decisions

\* An entry of a bulk job that passes processCreateCandidatesBulk's filter.
validEntry(c) ==
  Truthy(c.candidate_id) /\ Truthy(c.decision) /\ c.decision \in Decisions

\* The CandidateRecords processCreateCandidatesBulk hands to createCandidatesBulk.
validCandidates(d) ==
  LET kept == SelectSeq(d.candidates, validEntry)
  IN [i \in 1..Len(kept) |->
        [candidate_id |-> kept[i].candidate_id, step_id |-> d.step_id,
         decision |-> kept[i].decision, score |-> kept[i].score,
         reason |-> kept[i].reason]]

\* The checks a processor makes before its first Store statement.
validJob(job) ==
  LET d == job.data
  IN CASE job.name = "create-run" ->
            Truthy(d.run_id) /\ Truthy(d.pipeline) /\ Truthy(d.started_at)
       [] job.name = "update-run" -> Truthy(d.run_id)
       [] job.name = "create-step" ->
            /\ Truthy(d.step_id) /\ Truthy(d.run_id) /\ Truthy(d.name) /\ Truthy(d.type)
            /\ d.type \in StepTypes
       [] job.name = "update-step-summary" -> Truthy(d.step_id)
       [] job.name = "create-candidate" ->
            Truthy(d.candidate_id) /\ Truthy(d.decision) /\ d.decision \in Decisions
       [] job.name = "create-candidates-bulk" -> Len(d.candidates) > 0
       [] OTHER -> FALSE

processCreateRun(st, d) ==
  Returned([st EXCEPT !.runs = createRun(@, runOf(d))])

processUpdateRun(st, d) ==
  Returned([st EXCEPT !.runs = updateRun(@, d.run_id, d)])

processCreateStep(st, d, now) ==
  LET rs == ensureRunExists(st.runs, d.run_id, d.pipeline, now)
      res == createStep(st.steps, rs, stepOf(d))
  IN IF res.ok THEN Returned([st EXCEPT !.runs = rs, !.steps = res.tbl])
     ELSE Thrown([st EXCEPT !.runs = rs])

processUpdateStepSummary(st, d) ==
  LET ss == IF Truthy(d.run_id)
            THEN ensureStepExists(st.steps, st.runs, d.step_id, d.run_id)
            ELSE st.steps
      res == upsertStepSummary(st.step_summaries, ss, d.step_id, summaryOf(d))
  IN IF ~res.ok THEN Thrown([st EXCEPT !.steps = ss])
     ELSE Returned([st EXCEPT
            !.step_summaries = res.tbl,
            !.steps = IF updatesCounts(d.input_count, d.output_count)
                      THEN updateStepCounts(ss, d.step_id, d.input_count, d.output_count)
                      ELSE ss])

processCreateCandidate(st, d) ==
  LET ss == IF Truthy(d.run_id)
            THEN ensureStepExists(st.steps, st.runs, d.step_id, d.run_id)
            ELSE st.steps
      res == createCandidate(st.candidates, ss, candidateOf(d))
  IN IF res.ok THEN Returned([st EXCEPT !.steps = ss, !.candidates = res.tbl])
     ELSE Thrown([st EXCEPT !.steps = ss])

processCreateCandidatesBulk(st, d) ==
  LET ss == IF Truthy(d.run_id)
            THEN ensureStepExists(st.steps, st.runs, d.step_id, d.run_id)
            ELSE st.steps
      res == createCandidatesBulk(st.candidates, ss, validCandidates(d))
  IN IF res.ok THEN Returned([st EXCEPT !.steps = ss, !.candidates = res.tbl])
     ELSE Thrown([st EXCEPT !.steps = ss])

\* A worker's dispatch on job.name, the processor run without interruption.
process(st, job, now) ==
  IF ~validJob(job) THEN Thrown(st)
  ELSE CASE job.name = "create-run" -> processCreateRun(st, job.data)
         [] job.name = "update-run" -> processUpdateRun(st, job.data)
         [] job.name = "create-step" -> processCreateStep(st, job.data, now)
         [] job.name = "update-step-summary" -> processUpdateStepSummary(st, job.data)
         [] job.name = "create-candidate" -> processCreateCandidate(st, job.data)
         [] job.name = "create-candidates-bulk" -> processCreateCandidatesBulk(st, job.data)

-----------------------------------------------------------------------------
(* The events a pipeline run reports, as the jobs the API enqueues *)

Job(name, data) == [name |-> name, data |-> data]

CreateRunJob ==
  Job("create-run", [run_id |-> "r1", pipeline |-> "p1", input |-> "in1",
                     started_at |-> "t1", status |-> "running"])

UpdateRunJob(endedAt, status) ==
  Job("update-run", [run_id |-> "r1", ended_at |-> endedAt, status |-> status])

\* pipeline is the hint the SDK sends along; a bare client sends none.
CreateStepJob(pipeline) ==
  Job("create-step", [step_id |-> "s1", run_id |-> "r1", name |-> "n1",
                      type |-> "filter", metadata |-> "m1", pipeline |-> pipeline])

SummaryJob(inputCount, outputCount, breakdown, runId) ==
  Job("update-step-summary",
      [step_id |-> "s1", input_count |-> inputCount, output_count |-> outputCount,
       rejection_breakdown |-> breakdown, run_id |-> runId])

CandidateJob(decision, score, reason, runId) ==
  Job("create-candidate",
      [candidate_id |-> "c1", step_id |-> "s1", decision |-> decision,
       score |-> score, reason |-> reason, run_id |-> runId])

BulkJob(cands, runId) ==
  Job("create-candidates-bulk", [step_id |-> "s1", candidates |-> cands, run_id |-> runId])

\* sdk/src/step.ts, Step.recordSummary: the body it posts.
recordSummary(stepId, runId, summary) ==
  [step_id |-> stepId,
   run_id |-> runId,
   input_count |-> summary.inputCount,
   output_count |-> summary.outputCount,
   rejection_breakdown |-> IF summary.rejectionBreakdown.t = "object"
                           THEN summary.rejectionBreakdown ELSE Obj(EmptyObject)]

\* POST /steps/:id/summary: the job the route enqueues for a request body.
postSummary(stepId, body) ==
  Job("update-step-summary",
      [step_id |-> stepId, input_count |-> body.input_count,
       output_count |-> body.output_count,
       rejection_breakdown |-> body.rejection_breakdown, run_id |-> body.run_id])

\* step.recordSummary({ inputCount: 100, outputCount: 25 })
SdkSummary ==
  postSummary("s1", recordSummary("s1", "r1",
                [inputCount |-> Num(100), outputCount |-> Num(25),
                 rejectionBreakdown |-> Undef]))

SummaryFromCounts == SummaryJob(Num(100), Num(25), Undef, "r1")
SummaryFromBreakdown == SummaryJob(Undef, Num(2), Obj([a |-> 5, b |-> 3]), "r1")
SummaryNoRunId == SummaryJob(Num(10), Num(4), Obj([c |-> 6]), NULL)
CandidateAccepted == CandidateJob("accepted", Num(9), NULL, "r1")
CandidateRejected == CandidateJob("rejected", Num(1), "low", NULL)
BulkSample ==
  BulkJob(<< [candidate_id |-> "c1", decision |-> "rejected", score |-> Num(2),
              reason |-> "dup"],
             [candidate_id |-> "c2", decision |-> "accepted", score |-> Undef,
              reason |-> NULL] >>, "r1")

\* A batch whose second entry has a score the NUMERIC column refuses.
BulkBadScore ==
  BulkJob(<< [candidate_id |-> "c1", decision |-> "rejected", score |-> Num(2),
              reason |-> "dup"],
             [candidate_id |-> "c2", decision |-> "accepted", score |-> NotNumeric,
              reason |-> NULL] >>, "r1")

\* The jobs of the specifications, by job id.
JobTable ==
  [ createRun |-> CreateRunJob,
    endSuccess |-> UpdateRunJob("t2", "success"),
    endError |-> UpdateRunJob("t3", "error"),
    createStepHint |-> CreateStepJob("p1"),
    createStep |-> CreateStepJob(NULL),
    summaryCounts |-> SummaryFromCounts,
    summaryNoRunId |-> SummaryNoRunId,
    summaryBreakdown |-> SummaryFromBreakdown,
    sdkSummary |-> SdkSummary,
    candidateAccepted |-> CandidateAccepted,
    candidateRejected |-> CandidateRejected,
    bulk |-> BulkSample,
    bulkBadScore |-> BulkBadScore ]

JobIds == DOMAIN JobTable
IdsOf(jobs) == { i \in JobIds : JobTable[i] \in jobs }

\* The jobs of Spec: events that arrive with no run and no step in the Store
\* yet, some carrying the run_id that lets the worker create placeholders.
JobUniverse ==
  { CreateRunJob, UpdateRunJob("t2", "success"), CreateStepJob(NULL),
    SummaryFromCounts, SummaryNoRunId,
    CandidateAccepted, CandidateRejected, BulkSample }

\* The jobs of SpecSeq.
SeqUniverse == { JobTable[i] : i \in JobIds } \ { BulkBadScore }

\* The five events of one instrumented run with one step and one candidate.
ConvergenceEvents ==
  { CreateRunJob, UpdateRunJob("t2", "success"), CreateStepJob("p1"),
    SummaryFromCounts, CandidateAccepted }

\* Jobs in a queue at once in Spec.
MaxJobs == 3
\* Worker crashes (each redelivers the job it interrupts).
MaxCrashes == 1
\* Jobs processed one after the other in SpecSeq.
MaxSeqJobs == 4
\* Steps in the Store in SpecQuery.
MaxSteps == 3

Scenarios == { J \in SUBSET IdsOf(JobUniverse) : Cardinality(J) <= MaxJobs }

CandidateKeys ==
  { <<j.data.candidate_id, j.data.step_id>> :
      j \in { x \in SeqUniverse : x.name = "create-candidate" } }
  \cup UNION { { <<j.data.candidates[i].candidate_id, j.data.step_id>> :
                   i \in 1..Len(j.data.candidates) } :
               j \in { x \in SeqUniverse : x.name = "create-candidates-bulk" } }

NoJob == "none"

-----------------------------------------------------------------------------
(* State *)

VARIABLES
  runs, steps, step_summaries, candidates,  \* the Store's tables
  pc,               \* per job id of the queue: waiting, the statement its worker is at, completed, failed
  attemptsMade,     \* per job: attempts that failed so far
  txn,              \* per job: the rows its open transaction has written, in order
  crashes,          \* worker crashes so far
  lastCandidateJob, \* per candidate key: the job whose candidate upsert ran last
  log,              \* SpecSeq: the jobs processed so far, each with its outcome
  before,           \* SpecSeq: the Store before the last job of log
  threshold,        \* the threshold of the last high-rejection query
  result,           \* the rows the last high-rejection query returned, in order
  request,          \* SpecApi: the last write request the API handled
  response,         \* SpecApi: the HTTP status it answered
  queue,            \* SpecApi: the jobs the API enqueued, in order, each with its state
  bufferSize,       \* SDK: config.bufferSize of the XRayClient
  buffer,           \* SDK: XRayClient.buffer
  sent,             \* SDK: the requests sendWithTimeout has sent, in order, each with its outcome
  runEnded,         \* SDK: Run.ended
  stepEnded,        \* SDK: Step.ended
  call              \* SDK: the last call the pipeline made on the SDK

storeVars == <<runs, steps, step_summaries, candidates>>
queueVars == <<pc, attemptsMade, txn, crashes>>
lastVars == <<lastCandidateJob>>
seqVars == <<log, before>>
queryVars == <<threshold, result>>
apiVars == <<request, response, queue>>
sdkVars == <<bufferSize, buffer, sent, runEnded, stepEnded, call>>
vars == <<runs, steps, step_summaries, candidates, pc, attemptsMade, txn, crashes,
          lastCandidateJob, log, before, threshold, result, request, response, queue,
          bufferSize, buffer, sent, runEnded, stepEnded, call>>

store == Store(runs, steps, step_summaries, candidates)
EmptyStore == Store({}, {}, {}, {})

\* defaultJobOptions.attempts
attempts == 3

\* No high-rejection query has been made.
NoQuery == threshold = NullV /\ result = <<>>

\* The API has handled no write request.
NoRequest == request = NoRow /\ response = 0 /\ queue = <<>>

\* No SDK client has been constructed.
NoSdk ==
  /\ bufferSize = 0 /\ buffer = <<>> /\ sent = <<>>
  /\ runEnded = FALSE /\ stepEnded = FALSE /\ call = NoRow

InitStore ==
  /\ runs = {} /\ steps = {} /\ step_summaries = {} /\ candidates = {}
  /\ lastCandidateJob = [k \in CandidateKeys |-> NoJob]
  /\ NoQuery
  /\ NoRequest
  /\ NoSdk

Init ==
  /\ InitStore
  /\ \E J \in Scenarios :
       /\ pc = [j \in J |-> "waiting"]
       /\ attemptsMade = [j \in J |-> 0]
       /\ txn = [j \in J |-> <<>>]
  /\ crashes = 0
  /\ log = <<>>
  /\ before = EmptyStore

Jobs == DOMAIN pc
data(j) == JobTable[j].data

-----------------------------------------------------------------------------
(* worker.ts: one action per Store statement of a processor *)

Active(j) == pc[j] \notin {"waiting", "completed", "failed"}

Goto(j, label) == pc' = [pc EXCEPT ![j] = label] /\ UNCHANGED <<attemptsMade, txn, crashes>>

\* A queue that retries once more than `attempts` allows.
Throw_oneMore(j) ==
  /\ attemptsMade' = [attemptsMade EXCEPT ![j] = @ + 1]
  /\ pc' = [pc EXCEPT ![j] = IF attemptsMade[j] + 1 <= attempts THEN "waiting" ELSE "failed"]
  /\ UNCHANGED <<txn, crashes>>

\* The processor threw: the worker rethrows, the queue counts the failed attempt
\* and retries the job until `attempts` are used up.
Throw(j) ==
  /\ attemptsMade' = [attemptsMade EXCEPT ![j] = @ + 1]
  /\ pc' = [pc EXCEPT ![j] = IF attemptsMade[j] + 1 < attempts THEN "waiting" ELSE "failed"]
  /\ UNCHANGED <<txn, crashes>>

\* The statement after ensureStepExists.
mainLabel(job) ==
  CASE job.name = "update-step-summary" -> "upsertSummary"
    [] job.name = "create-candidate" -> "createCandidate"
    [] job.name = "create-candidates-bulk" ->
         IF validCandidates(job.data) = <<>> THEN "return" ELSE "bulkInsert"

\* Where a processor starts once its field checks pass.
firstLabel(job) ==
  CASE job.name = "create-run" -> "createRun"
    [] job.name = "update-run" -> "updateRun"
    [] job.name = "create-step" -> "getRun"
    [] job.name = "update-step-summary" ->
         IF Truthy(job.data.run_id) THEN "getStep" ELSE "upsertSummary"
    [] job.name = "create-candidate" ->
         IF Truthy(job.data.run_id) THEN "getStep" ELSE "createCandidate"
    [] job.name = "create-candidates-bulk" ->
         IF Truthy(job.data.run_id) THEN "getStep" ELSE mainLabel(job)

\* The job's worker is about to issue the statement `label`: it has reached it,
\* or it takes the waiting job now, the processor's field checks pass and
\* `label` is its first statement.
At(j, label) ==
  \/ pc[j] = label
  \/ pc[j] = "waiting" /\ validJob(JobTable[j]) /\ firstLabel(JobTable[j]) = label

\* A worker takes a waiting job and the processor's field checks throw.
RejectJob(j) ==
  /\ pc[j] = "waiting"
  /\ ~validJob(JobTable[j])
  /\ Throw(j)
  /\ UNCHANGED <<storeVars, lastVars, seqVars, queryVars, apiVars, sdkVars>>

RunCreateRun(j) ==
  /\ At(j, "createRun")
  /\ runs' = createRun(runs, runOf(data(j)))
  /\ Goto(j, "return")
  /\ UNCHANGED <<steps, step_summaries, candidates, lastVars, seqVars, queryVars, apiVars, sdkVars>>

RunUpdateRun(j) ==
  /\ At(j, "updateRun")
  /\ runs' = updateRun(runs, data(j).run_id, data(j))
  /\ Goto(j, "return")
  /\ UNCHANGED <<steps, step_summaries, candidates, lastVars, seqVars, queryVars, apiVars, sdkVars>>

\* ensureRunExists: `const existing = await getRun(runId); if (existing) return;`
EnsureRunSelect(j) ==
  /\ At(j, "getRun")
  /\ Goto(j, IF getRun(runs, data(j).run_id) # NoRow THEN "createStep" ELSE "insertRun")
  /\ UNCHANGED <<storeVars, lastVars, seqVars, queryVars, apiVars, sdkVars>>

\* ensureRunExists: the placeholder INSERT.
EnsureRunInsert(j) ==
  /\ At(j, "insertRun")
  /\ \E now \in NowValues :
       runs' = insertPlaceholderRun(runs, data(j).run_id, data(j).pipeline, now)
  /\ Goto(j, "createStep")
  /\ UNCHANGED <<steps, step_summaries, candidates, lastVars, seqVars, queryVars, apiVars, sdkVars>>

StepCreateStep(j) ==
  /\ At(j, "createStep")
  /\ LET res == createStep(steps, runs, stepOf(data(j)))
     IN /\ steps' = res.tbl
        /\ IF res.ok THEN Goto(j, "return") ELSE Throw(j)
  /\ UNCHANGED <<runs, step_summaries, candidates, lastVars, seqVars, queryVars, apiVars, sdkVars>>

\* ensureStepExists: `const existing = await getStep(stepId); if (existing) return;`
EnsureStepSelect(j) ==
  /\ At(j, "getStep")
  /\ Goto(j, IF getStep(steps, data(j).step_id) # NoRow THEN mainLabel(JobTable[j]) ELSE "insertStep")
  /\ UNCHANGED <<storeVars, lastVars, seqVars, queryVars, apiVars, sdkVars>>

\* A placeholder INSERT whose failure reaches the caller.
EnsureStepInsert_rethrow(j) ==
  /\ At(j, "insertStep")
  /\ LET res == insertPlaceholderStep(steps, runs, data(j).step_id, data(j).run_id)
     IN /\ steps' = res.tbl
        /\ IF res.ok THEN Goto(j, mainLabel(JobTable[j])) ELSE Throw(j)
  /\ UNCHANGED <<runs, step_summaries, candidates, lastVars, seqVars, queryVars, apiVars, sdkVars>>

\* ensureStepExists: the placeholder INSERT; its catch swallows a failure.
EnsureStepInsert(j) ==
  /\ At(j, "insertStep")
  /\ steps' = insertPlaceholderStep(steps, runs, data(j).step_id, data(j).run_id).tbl
  /\ Goto(j, mainLabel(JobTable[j]))
  /\ UNCHANGED <<runs, step_summaries, candidates, lastVars, seqVars, queryVars, apiVars, sdkVars>>

\* updateStepSummary, first statement.
SummaryUpsert(j) ==
  /\ At(j, "upsertSummary")
  /\ LET res == upsertStepSummary(step_summaries, steps, data(j).step_id, summaryOf(data(j)))
     IN /\ step_summaries' = res.tbl
        /\ IF res.ok
           THEN Goto(j, IF updatesCounts(data(j).input_count, data(j).output_count)
                        THEN "updateCounts" ELSE "return")
           ELSE Throw(j)
  /\ UNCHANGED <<runs, steps, candidates, lastVars, seqVars, queryVars, apiVars, sdkVars>>

\* updateStepSummary, second statement.
SummaryUpdateCounts(j) ==
  /\ At(j, "updateCounts")
  /\ steps' = updateStepCounts(steps, data(j).step_id, data(j).input_count, data(j).output_count)
  /\ Goto(j, "return")
  /\ UNCHANGED <<runs, step_summaries, candidates, lastVars, seqVars, queryVars, apiVars, sdkVars>>

\* Another job's open transaction has written the row (candidateId, stepId)
\* and holds its lock until it commits or rolls back.
LockedByOther(j, candidateId, stepId) ==
  \E i \in Jobs \ {j} : \E n \in 1..Len(txn[i]) :
    txn[i][n].candidate_id = candidateId /\ txn[i][n].step_id = stepId

CandidateCreate(j) ==
  /\ At(j, "createCandidate")
  /\ ~LockedByOther(j, data(j).candidate_id, data(j).step_id)
  /\ LET res == createCandidate(candidates, steps, candidateOf(data(j)))
     IN /\ candidates' = res.tbl
        /\ IF res.ok
           THEN /\ Goto(j, "return")
                /\ lastCandidateJob' =
                     [lastCandidateJob EXCEPT ![<<data(j).candidate_id, data(j).step_id>>] = j]
           ELSE Throw(j) /\ UNCHANGED lastCandidateJob
  /\ UNCHANGED <<runs, steps, step_summaries, seqVars, queryVars, apiVars, sdkVars>>

\* The INSERTs of a bulk write issued outside a transaction: each takes effect
\* at once and a later failure undoes nothing.
BulkInsert_autocommit(j) ==
  /\ At(j, "bulkInsert")
  /\ LET todo == validCandidates(data(j))
         c == todo[Len(txn[j]) + 1]
         res == bulkInsert(txn[j], steps, c)
     IN /\ ~LockedByOther(j, c.candidate_id, c.step_id)
        /\ IF res.ok
           THEN /\ txn' = [txn EXCEPT ![j] = res.tbl]
                /\ candidates' = commitCandidates(candidates, res.tbl)
                /\ pc' = [pc EXCEPT ![j] = IF Len(res.tbl) = Len(todo)
                                           THEN "commit" ELSE "bulkInsert"]
                /\ UNCHANGED attemptsMade
           ELSE /\ txn' = [txn EXCEPT ![j] = <<>>]
                /\ candidates' = candidates
                /\ attemptsMade' = [attemptsMade EXCEPT ![j] = @ + 1]
                /\ pc' = [pc EXCEPT ![j] = IF attemptsMade[j] + 1 < attempts
                                           THEN "waiting" ELSE "failed"]
  /\ UNCHANGED <<crashes, runs, steps, step_summaries, lastVars, seqVars, queryVars, apiVars, sdkVars>>

\* createCandidatesBulk: BEGIN before the first INSERT, then one INSERT per
\* action; a failing INSERT goes to the catch, which rolls back and rethrows.
BulkInsert(j) ==
  /\ At(j, "bulkInsert")
  /\ LET todo == validCandidates(data(j))
         c == todo[Len(txn[j]) + 1]
         res == bulkInsert(txn[j], steps, c)
     IN /\ ~LockedByOther(j, c.candidate_id, c.step_id)
        /\ IF res.ok
           THEN /\ txn' = [txn EXCEPT ![j] = res.tbl]
                /\ pc' = [pc EXCEPT ![j] = IF Len(res.tbl) = Len(todo)
                                           THEN "commit" ELSE "bulkInsert"]
                /\ UNCHANGED attemptsMade
           ELSE /\ txn' = [txn EXCEPT ![j] = <<>>]
                /\ attemptsMade' = [attemptsMade EXCEPT ![j] = @ + 1]
                /\ pc' = [pc EXCEPT ![j] = IF attemptsMade[j] + 1 < attempts
                                           THEN "waiting" ELSE "failed"]
  /\ UNCHANGED <<crashes, storeVars, lastVars, seqVars, queryVars, apiVars, sdkVars>>

\* createCandidatesBulk: COMMIT.
BulkCommit(j) ==
  /\ At(j, "commit")
  /\ candidates' = commitCandidates(candidates, txn[j])
  /\ lastCandidateJob' =
       [k \in CandidateKeys |->
          IF \E n \in 1..Len(txn[j]) : k = <<txn[j][n].candidate_id, txn[j][n].step_id>>
          THEN j ELSE lastCandidateJob[k]]
  /\ txn' = [txn EXCEPT ![j] = <<>>]
  /\ pc' = [pc EXCEPT ![j] = "return"]
  /\ UNCHANGED <<attemptsMade, crashes, runs, steps, step_summaries, seqVars, queryVars, apiVars, sdkVars>>

\* The processor returned: the queue marks the job completed.
Complete(j) ==
  /\ At(j, "return")
  /\ Goto(j, "completed")
  /\ UNCHANGED <<storeVars, lastVars, seqVars, queryVars, apiVars, sdkVars>>

\* A crash after which the queue never redelivers the job.
Crash_noRedelivery(j) ==
  /\ Active(j)
  /\ crashes < MaxCrashes
  /\ crashes' = crashes + 1
  /\ pc' = [pc EXCEPT ![j] = "stalled"]
  /\ txn' = [txn EXCEPT ![j] = <<>>]
  /\ UNCHANGED <<attemptsMade, storeVars, lastVars, seqVars, queryVars, apiVars, sdkVars>>

\* The worker dies while the job is active; the queue redelivers the job.
Crash(j) ==
  /\ Active(j)
  /\ crashes < MaxCrashes
  /\ crashes' = crashes + 1
  /\ pc' = [pc EXCEPT ![j] = "waiting"]
  /\ txn' = [txn EXCEPT ![j] = <<>>]
  /\ UNCHANGED <<attemptsMade, storeVars, lastVars, seqVars, queryVars, apiVars, sdkVars>>

Next ==
  \/ \E j \in Jobs : RunCreateRun(j)
  \/ \E j \in Jobs : RunUpdateRun(j)
  \/ \E j \in Jobs : EnsureRunSelect(j)
  \/ \E j \in Jobs : EnsureRunInsert(j)
  \/ \E j \in Jobs : StepCreateStep(j)
  \/ \E j \in Jobs : EnsureStepSelect(j)
  \/ \E j \in Jobs : EnsureStepInsert(j)
  \/ \E j \in Jobs : SummaryUpsert(j)
  \/ \E j \in Jobs : SummaryUpdateCounts(j)
  \/ \E j \in Jobs : CandidateCreate(j)
  \/ \E j \in Jobs : BulkInsert(j)
  \/ \E j \in Jobs : BulkCommit(j)
  \/ \E j \in Jobs : Complete(j)

\* The worker pool on any few jobs of the universe, in any interleaving of
\* their Store statements.
Spec == Init /\ [][Next]_vars

\* A run whose step reports its candidates in one bulk job.
BulkEvents == { CreateRunJob, CreateStepJob("p1"), BulkSample }

\* A run whose creation races with two create-step jobs, one sent with the
\* pipeline hint and one without.
RunRaceEvents == { CreateRunJob, CreateStepJob("p1"), CreateStepJob(NULL) }

\* The worker pool on the events of one run, with worker crashes.
InitCrash ==
  /\ InitStore
  /\ \E J \in {IdsOf(ConvergenceEvents), IdsOf(BulkEvents), IdsOf(RunRaceEvents)} :
       /\ pc = [j \in J |-> "waiting"]
       /\ attemptsMade = [j \in J |-> 0]
       /\ txn = [j \in J |-> <<>>]
  /\ crashes = 0
  /\ log = <<>>
  /\ before = EmptyStore

NextCrash ==
  \/ Next
  \/ \E j \in Jobs : Crash(j)

SpecCrash == InitCrash /\ [][NextCrash]_vars

\* The three events of one step: its run, the step and its summary.
OrderingEvents == { CreateRunJob, CreateStepJob("p1"), SummaryFromCounts }

InitFair ==
  /\ InitStore
  /\ \E J \in {IdsOf(OrderingEvents), IdsOf(ConvergenceEvents), IdsOf(BulkEvents)} :
       /\ pc = [j \in J |-> "waiting"]
       /\ attemptsMade = [j \in J |-> 0]
       /\ txn = [j \in J |-> <<>>]
  /\ crashes = 0
  /\ log = <<>>
  /\ before = EmptyStore

\* The next statement of job j's processor, or its completion.
JobStep(j) ==
  /\ j \in Jobs
  /\ \/ RunCreateRun(j) \/ RunUpdateRun(j) \/ EnsureRunSelect(j)
     \/ EnsureRunInsert(j) \/ StepCreateStep(j) \/ EnsureStepSelect(j)
     \/ EnsureStepInsert(j) \/ SummaryUpsert(j) \/ SummaryUpdateCounts(j)
     \/ CandidateCreate(j) \/ BulkInsert(j) \/ BulkCommit(j) \/ Complete(j)

\* The workers keep taking waiting jobs (retried ones included) and every
\* statement a processor awaits returns: no job that can move waits forever.
Fairness == \A j \in JobIds : WF_vars(JobStep(j))

\* The worker pool under fair scheduling, without crashes.
SpecFair == InitFair /\ [][Next]_vars /\ Fairness

\* Two jobs at a time: a run and its end, and a step with its summary, a
\* candidate or a bulk batch.
PairEvents ==
  { { CreateRunJob, UpdateRunJob("t2", "success") },
    { CreateStepJob(NULL), SummaryFromCounts },
    { CreateStepJob(NULL), CandidateAccepted },
    { CreateStepJob(NULL), BulkSample } }

InitPair ==
  /\ InitStore
  /\ \E E \in PairEvents :
       /\ pc = [j \in IdsOf(E) |-> "waiting"]
       /\ attemptsMade = [j \in IdsOf(E) |-> 0]
       /\ txn = [j \in IdsOf(E) |-> <<>>]
  /\ crashes = 0
  /\ log = <<>>
  /\ before = EmptyStore

\* The worker pool under fair scheduling, with worker crashes.
SpecFairCrash == InitPair /\ [][NextCrash]_vars /\ Fairness

\* The Stores that processing up to two jobs leaves.
PreparedStores ==
  LET after(S) == { process(st, job, now).st :
                      st \in S, job \in SeqUniverse, now \in NowValues }
  IN {EmptyStore} \cup after({EmptyStore}) \cup after(after({EmptyStore}))

\* One job taken by a worker on a prepared Store; `before` keeps that Store.
InitRedo ==
  /\ \E st \in PreparedStores :
       /\ runs = st.runs /\ steps = st.steps
       /\ step_summaries = st.step_summaries /\ candidates = st.candidates
       /\ before = st
  /\ lastCandidateJob = [k \in CandidateKeys |-> NoJob]
  /\ NoQuery
  /\ NoRequest
  /\ NoSdk
  /\ \E j \in JobIds :
       /\ pc = [i \in {j} |-> "waiting"]
       /\ attemptsMade = [i \in {j} |-> 0]
       /\ txn = [i \in {j} |-> <<>>]
  /\ crashes = 0
  /\ log = <<>>

\* One job alone, its worker crashing at any statement and the job redelivered.
SpecRedo == InitRedo /\ [][NextCrash]_vars

\* Jobs processed one after the other, each processor run to its end before
\* the next job is taken: any jobs of the universe, in any order, any number
\* of times.
InitSeq ==
  /\ InitStore
  /\ pc = <<>>
  /\ attemptsMade = <<>>
  /\ txn = <<>>
  /\ crashes = 0
  /\ log = <<>>
  /\ before = EmptyStore

SeqProcess(job) ==
  /\ Len(log) < MaxSeqJobs
  /\ \E now \in NowValues :
       LET res == process(store, job, now)
       IN /\ runs' = res.st.runs
          /\ steps' = res.st.steps
          /\ step_summaries' = res.st.step_summaries
          /\ candidates' = res.st.candidates
          /\ log' = Append(log, [job |-> job, ok |-> ~res.thrown])
  /\ before' = store
  /\ UNCHANGED <<queueVars, lastVars, queryVars, apiVars, sdkVars>>

NextSeq == \E job \in SeqUniverse : SeqProcess(job)

SpecSeq == InitSeq /\ [][NextSeq]_vars

\* The step worker alone on one step: its create-step job and summary jobs
\* with counts (also output_count > input_count, as for a generate step with
\* input 0), with a count carried as null, and with the counts left out.
SummaryUniverse ==
  { CreateStepJob(NULL),
    SummaryJob(Num(100), Num(25), Undef, "r1"),
    SummaryJob(Num(0), Num(50), Undef, "r1"),
    SummaryJob(NullV, Num(25), Undef, "r1"),
    SummaryJob(Undef, Undef, Obj([a |-> 5]), "r1") }

NextSummary == \E job \in SummaryUniverse : SeqProcess(job)

SpecSummary == InitSeq /\ [][NextSummary]_vars

\* GET /steps/query/high-rejection on a Store that holds one run, up to
\* MaxSteps steps of it, and a summary for any of them.
DefaultThreshold == Rat(9, 10)
Thresholds == { DefaultThreshold, Rat(0, 1), Rat(-1, 2), Rat(17, 20) }

\* <<rejected, accepted>> of a stored summary: rates 0.85, 0.9 and 0.95, a zero
\* sum from zeros and from a negative `rejected`.
SummaryCounts == { <<17, 3>>, <<9, 1>>, <<19, 1>>, <<0, 0>>, <<-1, 1>> }

QueryStepIds == <<"s1", "s2", "s3", "s4">>

InitQuery ==
  /\ runs = { runOf(CreateRunJob.data) }
  /\ \E S \in SUBSET { QueryStepIds[i] : i \in 1..MaxSteps } :
       \E type \in [S -> {"filter", "rank"}] :
         \E M \in SUBSET S :
           \E counts \in [M -> SummaryCounts] :
             /\ steps = { [step_id |-> id, run_id |-> "r1", name |-> "n1",
                           type |-> type[id], input_count |-> NullV,
                           output_count |-> NullV, metadata |-> "m1"] : id \in S }
             /\ step_summaries =
                  { [step_id |-> id, rejected |-> counts[id][1],
                     accepted |-> counts[id][2],
                     rejection_breakdown |-> EmptyObject] : id \in M }
  /\ candidates = {}
  /\ lastCandidateJob = [k \in CandidateKeys |-> NoJob]
  /\ pc = <<>> /\ attemptsMade = <<>> /\ txn = <<>> /\ crashes = 0
  /\ log = <<>> /\ before = EmptyStore
  /\ NoQuery
  /\ NoRequest
  /\ NoSdk

\* The route parses the threshold and returns the rows of the model's query.
HighRejectionQuery(T) ==
  /\ \E rows \in findFilteringStepsWithHighRejectionRate(steps, step_summaries, T) :
       result' = rows
  /\ threshold' = T
  /\ UNCHANGED <<storeVars, queueVars, lastVars, seqVars, apiVars, sdkVars>>

NextQuery == \E T \in Thresholds : HighRejectionQuery(T)

SpecQuery == InitQuery /\ [][NextQuery]_vars

-----------------------------------------------------------------------------
(* routes/runs.ts, routes/steps.ts: the write routes, then the workers *)

\* What a route does with a request: the status it answers and the job it
\* hands to queue.add (NoRow when it returns before enqueueing).
Rejected == [status |-> 400, job |-> NoRow]
Enqueued(status, job) == [status |-> status, job |-> job]

\* req.body.candidates: an array, or anything else.
Arr(items) == [isArray |-> TRUE, items |-> items]
NotArray == [isArray |-> FALSE, items |-> <<>>]

\* POST /runs
postRuns(body) ==
  IF ~Truthy(body.run_id) \/ ~Truthy(body.pipeline) \/ ~Truthy(body.started_at)
  THEN Rejected
  ELSE Enqueued(201, Job("create-run",
         [run_id |-> body.run_id, pipeline |-> body.pipeline, input |-> body.input,
          started_at |-> body.started_at,
          status |-> IF Truthy(body.status) THEN body.status ELSE "running"]))

\* POST /runs/:id
postRunsId(id, body) ==
  Enqueued(200, Job("update-run",
    [run_id |-> id, ended_at |-> body.ended_at, status |-> body.status]))

\* A create-step route that does not look at the type's value.
postSteps_anyType(body) ==
  IF \/ ~Truthy(body.step_id) \/ ~Truthy(body.run_id)
     \/ ~Truthy(body.name) \/ ~Truthy(body.type)
  THEN Rejected
  ELSE Enqueued(201, Job("create-step",
         [step_id |-> body.step_id, run_id |-> body.run_id, name |-> body.name,
          type |-> body.type,
          metadata |-> IF Truthy(body.metadata) THEN body.metadata ELSE "{}",
          pipeline |-> body.pipeline]))

\* POST /steps
postSteps(body) ==
  IF \/ ~Truthy(body.step_id) \/ ~Truthy(body.run_id)
     \/ ~Truthy(body.name) \/ ~Truthy(body.type)
  THEN Rejected
  ELSE IF body.type \notin StepTypes THEN Rejected
  ELSE Enqueued(201, Job("create-step",
         [step_id |-> body.step_id, run_id |-> body.run_id, name |-> body.name,
          type |-> body.type,
          metadata |-> IF Truthy(body.metadata) THEN body.metadata ELSE "{}",
          pipeline |-> body.pipeline]))

\* A create-candidate route that does not look at the decision's value.
postCandidates_anyDecision(stepId, body) ==
  IF ~Truthy(body.candidate_id) \/ ~Truthy(body.decision) THEN Rejected
  ELSE Enqueued(201, Job("create-candidate",
         [candidate_id |-> body.candidate_id, step_id |-> stepId,
          decision |-> body.decision, score |-> body.score,
          reason |-> body.reason, run_id |-> body.run_id]))

\* POST /steps/:id/candidates
postCandidates(stepId, body) ==
  IF ~Truthy(body.candidate_id) \/ ~Truthy(body.decision) THEN Rejected
  ELSE IF body.decision \notin Decisions THEN Rejected
  ELSE Enqueued(201, Job("create-candidate",
         [candidate_id |-> body.candidate_id, step_id |-> stepId,
          decision |-> body.decision, score |-> body.score,
          reason |-> body.reason, run_id |-> body.run_id]))

\* POST /steps/:id/candidates/bulk
postCandidatesBulk(stepId, body) ==
  IF ~body.candidates.isArray \/ Len(body.candidates.items) = 0 THEN Rejected
  ELSE Enqueued(201, Job("create-candidates-bulk",
         [step_id |-> stepId, candidates |-> body.candidates.items,
          run_id |-> body.run_id]))

Request(route, id, body) == [route |-> route, id |-> id, body |-> body]

\* The router's dispatch.
handle(req) ==
  CASE req.route = "POST /runs" -> postRuns(req.body)
    [] req.route = "POST /runs/:id" -> postRunsId(req.id, req.body)
    [] req.route = "POST /steps" -> postSteps(req.body)
    [] req.route = "POST /steps/:id/summary" ->
         Enqueued(200, postSummary(req.id, req.body))
    [] req.route = "POST /steps/:id/candidates" -> postCandidates(req.id, req.body)
    [] req.route = "POST /steps/:id/candidates/bulk" ->
         postCandidatesBulk(req.id, req.body)

\* Request bodies: well-formed ones, ones with a field missing, ones with a
\* value outside its enumeration.
RunBodies ==
  { [run_id |-> "r1", pipeline |-> "p1", input |-> "in1", started_at |-> "t1",
     status |-> st] : st \in {NULL, "bogus"} }
  \cup { [run_id |-> "r1", pipeline |-> NULL, input |-> "in1",
          started_at |-> "t1", status |-> NULL] }

UpdateRunBodies ==
  { [ended_at |-> "t2", status |-> "success"],
    [ended_at |-> NULL, status |-> "bogus"] }

StepBodies ==
  { [step_id |-> "s1", run_id |-> "r1", name |-> "n1", type |-> ty,
     metadata |-> "m1", pipeline |-> NULL] : ty \in {"filter", "bogus", NULL} }

SummaryBodies ==
  { [input_count |-> Num(100), output_count |-> Num(25),
     rejection_breakdown |-> Undef, run_id |-> "r1"] }

CandidateBodies ==
  { [candidate_id |-> "c1", decision |-> "rejected", score |-> Num(1),
     reason |-> "low", run_id |-> NULL],
    [candidate_id |-> "c1", decision |-> "maybe", score |-> Undef,
     reason |-> NULL, run_id |-> "r1"],
    [candidate_id |-> NULL, decision |-> "accepted", score |-> Undef,
     reason |-> NULL, run_id |-> "r1"] }

\* Entries of a bulk body: one well-formed, one without candidate_id, one with
\* a decision outside the enumeration.
WellFormedEntry ==
  [candidate_id |-> "c1", decision |-> "rejected", score |-> Num(2), reason |-> "dup"]
NoIdEntry ==
  [candidate_id |-> NULL, decision |-> "accepted", score |-> Undef, reason |-> NULL]
BadDecisionEntry ==
  [candidate_id |-> "c2", decision |-> "maybe", score |-> Undef, reason |-> NULL]

BulkBodies ==
  { [candidates |-> Arr(<<WellFormedEntry, NoIdEntry, BadDecisionEntry>>), run_id |-> "r1"],
    [candidates |-> Arr(<<NoIdEntry, BadDecisionEntry>>), run_id |-> NULL],
    [candidates |-> Arr(<<>>), run_id |-> "r1"],
    [candidates |-> NotArray, run_id |-> "r1"] }

Requests ==
  { Request("POST /runs", NULL, b) : b \in RunBodies }
  \cup { Request("POST /runs/:id", "r1", b) : b \in UpdateRunBodies }
  \cup { Request("POST /steps", NULL, b) : b \in StepBodies }
  \cup { Request("POST /steps/:id/summary", "s1", b) : b \in SummaryBodies }
  \cup { Request("POST /steps/:id/candidates", "s1", b) : b \in CandidateBodies }
  \cup { Request("POST /steps/:id/candidates/bulk", "s1", b) : b \in BulkBodies }

\* Write requests the API handles in SpecApi.
MaxRequests == 2

InitApi ==
  /\ InitStore
  /\ pc = <<>> /\ attemptsMade = <<>> /\ txn = <<>> /\ crashes = 0
  /\ log = <<>> /\ before = EmptyStore

\* A candidate route that looks the step up in the Store and answers 404 when
\* it is absent.
HandleRequest_checksStore(req, redisUp) ==
  /\ Len(queue) < MaxRequests
  /\ request' = req
  /\ LET h == handle(req)
     IN IF h.job = NoRow
        THEN response' = h.status /\ queue' = queue
        ELSE IF h.job.name = "create-candidate"
                /\ ~\E s \in steps : s.step_id = h.job.data.step_id
        THEN response' = 404 /\ queue' = queue
        ELSE IF redisUp
        THEN /\ response' = h.status
             /\ queue' = Append(queue, [job |-> h.job, attemptsMade |-> 0,
                                         state |-> "waiting"])
        ELSE response' = 500 /\ queue' = queue
  /\ UNCHANGED <<storeVars, queueVars, lastVars, seqVars, queryVars, sdkVars>>

\* A route handler: validate, `await queue.add(...)`, answer.  When queue.add
\* rejects (redisUp = FALSE) the catch answers 500 and nothing is enqueued.
HandleRequest(req, redisUp) ==
  /\ Len(queue) < MaxRequests
  /\ request' = req
  /\ LET h == handle(req)
     IN IF h.job = NoRow
        THEN response' = h.status /\ queue' = queue
        ELSE IF redisUp
        THEN /\ response' = h.status
             /\ queue' = Append(queue, [job |-> h.job, attemptsMade |-> 0,
                                         state |-> "waiting"])
        ELSE response' = 500 /\ queue' = queue
  /\ UNCHANGED <<storeVars, queueVars, lastVars, seqVars, queryVars, sdkVars>>

\* A worker takes the waiting job queue[i] and runs its processor to the end;
\* a throw counts a failed attempt, the last one moves the job to failed.
ProcessQueued(i) ==
  /\ queue[i].state = "waiting"
  /\ \E now \in NowValues :
       LET res == process(store, queue[i].job, now)
       IN /\ runs' = res.st.runs
          /\ steps' = res.st.steps
          /\ step_summaries' = res.st.step_summaries
          /\ candidates' = res.st.candidates
          /\ log' = Append(log, [job |-> queue[i].job, ok |-> ~res.thrown])
          /\ queue' = [queue EXCEPT ![i] =
               IF ~res.thrown THEN [@ EXCEPT !.state = "completed"]
               ELSE [@ EXCEPT !.attemptsMade = @ + 1,
                              !.state = IF queue[i].attemptsMade + 1 < attempts
                                        THEN "waiting" ELSE "failed"]]
  /\ before' = store
  /\ UNCHANGED <<queueVars, lastVars, queryVars, request, response, sdkVars>>

\* create-step jobs that did not come through POST /steps: a type outside the
\* enumeration, no type.
DirectJobs ==
  { Job("create-step", [step_id |-> "s1", run_id |-> "r1", name |-> "n1",
                        type |-> ty, metadata |-> "m1", pipeline |-> NULL]) :
      ty \in {"bogus", NULL} }

\* A processor called with a job of DirectJobs.
ProcessDirect(job) ==
  /\ Len(log) < MaxRequests
  /\ \E now \in NowValues :
       LET res == process(store, job, now)
       IN /\ runs' = res.st.runs
          /\ steps' = res.st.steps
          /\ step_summaries' = res.st.step_summaries
          /\ candidates' = res.st.candidates
          /\ log' = Append(log, [job |-> job, ok |-> ~res.thrown])
  /\ before' = store
  /\ UNCHANGED <<queueVars, lastVars, queryVars, apiVars, sdkVars>>

NextApi ==
  \/ \E req \in Requests, redisUp \in BOOLEAN : HandleRequest(req, redisUp)
  \/ \E i \in 1..Len(queue) : ProcessQueued(i)

SpecApi == InitApi /\ [][NextApi]_vars

\* The validation of the routes: a well-formed body per validating route, each
\* of its required fields left out in turn, each enumerated field given a
\* value outside its enumeration, and the two bad shapes of a bulk body.
ValidationRequests ==
  LET run == [run_id |-> "r1", pipeline |-> "p1", input |-> "in1",
              started_at |-> "t1", status |-> NULL]
      step == [step_id |-> "s1", run_id |-> "r1", name |-> "n1", type |-> "filter",
               metadata |-> "m1", pipeline |-> NULL]
      cand == [candidate_id |-> "c1", decision |-> "rejected", score |-> Num(1),
               reason |-> "low", run_id |-> "r1"]
  IN { Request("POST /runs", NULL, b) :
         b \in {run} \cup { [run EXCEPT ![f] = NULL] :
                               f \in {"run_id", "pipeline", "started_at"} } }
     \cup { Request("POST /steps", NULL, b) :
         b \in {step, [step EXCEPT !.type = "bogus"]}
               \cup { [step EXCEPT ![f] = NULL] :
                        f \in {"step_id", "run_id", "name", "type"} } }
     \cup { Request("POST /steps/:id/candidates", "s1", b) :
         b \in {cand, [cand EXCEPT !.decision = "maybe"]}
               \cup { [cand EXCEPT ![f] = NULL] : f \in {"candidate_id", "decision"} } }
     \cup { Request("POST /steps/:id/candidates/bulk", "s1",
                    [candidates |-> c, run_id |-> "r1"]) :
         c \in {Arr(<<WellFormedEntry>>), Arr(<<>>), NotArray} }

NextValidation ==
  \/ \E req \in ValidationRequests, redisUp \in BOOLEAN : HandleRequest(req, redisUp)
  \/ \E i \in 1..Len(queue) : ProcessQueued(i)

SpecValidation == InitApi /\ [][NextValidation]_vars

\* String.prototype.includes, on strings written as sequences of characters.
includes(s, sub) ==
  \E i \in 0..(Len(s) - Len(sub)) : \A k \in 1..Len(sub) : s[i + k] = sub[k]

\* A handleDatabaseError that matches the message whatever its case.
handleDatabaseError_anyCase(message) ==
  \/ includes(message, <<"e", "c", "o", "n", "n", "r", "e", "f", "u", "s", "e", "d">>)
  \/ includes(message, <<"E", "C", "O", "N", "N", "R", "E", "F", "U", "S", "E", "D">>)
  \/ includes(message, <<"c", "o", "n", "n", "e", "c", "t">>)

\* handleDatabaseError: TRUE when it answered 503.
handleDatabaseError(message) ==
  \/ includes(message, <<"E", "C", "O", "N", "N", "R", "E", "F", "U", "S", "E", "D">>)
  \/ includes(message, <<"c", "o", "n", "n", "e", "c", "t">>)

\* No error, and the messages of the errors pool.query rejects with when the
\* connection to PostgreSQL fails: "connect ECONNREFUSED" when the server is
\* not listening, "Connection terminated" when it drops an open connection.
NoFault == <<>>
ConnectionErrors ==
  { <<"c", "o", "n", "n", "e", "c", "t", " ", "E", "C", "O", "N", "N", "R", "E", "F", "U", "S", "E", "D">>,
    <<"C", "o", "n", "n", "e", "c", "t", "i", "o", "n", " ", "t", "e", "r", "m", "i", "n", "a", "t", "e", "d">> }

\* models/run.ts, models/step.ts, models/candidate.ts: the SELECTs of the read
\* endpoints (the rows as a set; their ORDER BY is not modelled).
listRuns(rs, filters) ==
  { r \in rs : /\ Truthy(filters.pipeline) => r.pipeline = filters.pipeline
               /\ Truthy(filters.status) => r.status = filters.status }

listSteps(ss, filters) ==
  { s \in ss : /\ Truthy(filters.run_id) => s.run_id = filters.run_id
               /\ Truthy(filters.type) => s.type = filters.type }

getStepSummary(sums, stepId) ==
  IF \E x \in sums : x.step_id = stepId
  THEN CHOOSE x \in sums : x.step_id = stepId
  ELSE NoRow

getCandidatesByStep(cs, stepId) == { c \in cs : c.step_id = stepId }

Answer(status, body) == [status |-> status, body |-> body]

\* The read routes on a Store that answers: the answers they can give.
get(st, req) ==
  CASE req.route = "GET /runs" -> { Answer(200, listRuns(st.runs, req.body)) }
    [] req.route = "GET /runs/:id" ->
         LET run == getRun(st.runs, req.id)
         IN { IF run = NoRow THEN Answer(404, "Run not found") ELSE Answer(200, run) }
    [] req.route = "GET /steps" -> { Answer(200, listSteps(st.steps, req.body)) }
    [] req.route = "GET /steps/:id" ->
         LET step == getStep(st.steps, req.id)
         IN { IF step = NoRow THEN Answer(404, "Step not found")
              ELSE Answer(200, [step |-> step,
                                summary |-> getStepSummary(st.step_summaries, step.step_id),
                                candidates |-> getCandidatesByStep(st.candidates,
                                                                   step.step_id)]) }
    [] req.route = "GET /steps/query/high-rejection" ->
         { Answer(200, rows) :
             rows \in findFilteringStepsWithHighRejectionRate(
                        st.steps, st.step_summaries,
                        IF req.body.threshold = NullV THEN DefaultThreshold
                        ELSE req.body.threshold) }

ReadRoutes ==
  {"GET /runs", "GET /runs/:id", "GET /steps", "GET /steps/:id",
   "GET /steps/query/high-rejection"}

ReadRequests ==
  { Request("GET /runs", NULL, [pipeline |-> NULL, status |-> "running"]) }
  \cup { Request("GET /runs/:id", "r1", NoRow) }
  \cup { Request("GET /steps", NULL, [run_id |-> "r1", type |-> NULL]) }
  \cup { Request("GET /steps/:id", "s1", NoRow) }
  \cup { Request("GET /steps/query/high-rejection", NULL, [threshold |-> NullV]) }

\* A read route that answers from the Store as the first waiting job would
\* leave it.
ReadRequest_readsAhead(req, err) ==
  /\ request' = [req EXCEPT !.body = [filters |-> req.body, err |-> err]]
  /\ LET W == { i \in 1..Len(queue) : queue[i].state = "waiting" }
         st == IF W = {} THEN store
               ELSE process(store, queue[CHOOSE i \in W : \A k \in W : i <= k].job,
                            CHOOSE now \in NowValues : TRUE).st
     IN \E a \in IF err = NoFault THEN get(st, req)
                  ELSE IF handleDatabaseError(err)
                  THEN { Answer(503, "Database unavailable") }
                  ELSE { Answer(500, "Internal server error") } :
          response' = a.status /\ result' = a.body
  /\ UNCHANGED <<storeVars, queueVars, lastVars, seqVars, threshold, queue, sdkVars>>

\* A read route: its SELECTs, then res.json; in the catch handleDatabaseError,
\* then 500.  `err` is the message pool.query rejected with, if it did.
ReadRequest(req, err) ==
  /\ request' = [req EXCEPT !.body = [filters |-> req.body, err |-> err]]
  /\ \E a \in IF err = NoFault THEN get(store, req)
               ELSE IF handleDatabaseError(err)
               THEN { Answer(503, "Database unavailable") }
               ELSE { Answer(500, "Internal server error") } :
       response' = a.status /\ result' = a.body
  /\ UNCHANGED <<storeVars, queueVars, lastVars, seqVars, threshold, queue, sdkVars>>

\* The writes of one step beside which the reads are made.
WritesBesideReads ==
  { Request("POST /steps", NULL,
            [step_id |-> "s1", run_id |-> "r1", name |-> "n1", type |-> "filter",
             metadata |-> "m1", pipeline |-> NULL]),
    Request("POST /steps/:id/summary", "s1",
            [input_count |-> Num(100), output_count |-> Num(5),
             rejection_breakdown |-> Undef, run_id |-> "r1"]) }

NextRead ==
  \/ \E req \in WritesBesideReads, redisUp \in BOOLEAN : HandleRequest(req, redisUp)
  \/ \E i \in 1..Len(queue) : ProcessQueued(i)
  \/ \E req \in ReadRequests, err \in {NoFault} \cup ConnectionErrors :
       ReadRequest(req, err)

SpecRead == InitApi /\ [][NextRead]_vars

\* The create-step path alone: POST /steps, the step worker, and
\* processCreateStep called with the jobs of DirectJobs.
StepRequests == { Request("POST /steps", NULL, b) : b \in StepBodies }

NextStepPath ==
  \/ \E req \in StepRequests, redisUp \in BOOLEAN : HandleRequest(req, redisUp)
  \/ \E i \in 1..Len(queue) : ProcessQueued(i)
  \/ \E job \in DirectJobs : ProcessDirect(job)

SpecStepPath == InitApi /\ [][NextStepPath]_vars

-----------------------------------------------------------------------------
(* sdk/src: one XRayClient, one Run and one Step of it *)

\* The largest config.bufferSize, and the sends one behaviour makes.
MaxBuffer == 1
MaxSends == 4

\* An XRayClient.post that buffers whether or not the buffer is full.
post_unbounded(c, size, path, body, delivered) ==
  LET payload == [id |-> Cardinality({ c.sent[i].id : i \in 1..Len(c.sent) }) + 1,
                  path |-> path, body |-> body]
  IN [buffer |-> IF size > 0 THEN Append(c.buffer, payload) ELSE c.buffer,
      sent |-> Append(c.sent, [id |-> payload.id, path |-> path, body |-> body,
                               delivered |-> delivered])]

\* XRayClient.post on the client state c = [buffer, sent]: push the payload
\* when buffering is on and the buffer is not full, then sendWithTimeout, whose
\* fetch reaches the API (delivered) or fails silently.  `id` numbers the
\* post() calls.
post(c, size, path, body, delivered) ==
  LET payload == [id |-> Cardinality({ c.sent[i].id : i \in 1..Len(c.sent) }) + 1,
                  path |-> path, body |-> body]
  IN [buffer |-> IF size > 0 /\ Len(c.buffer) < size
                 THEN Append(c.buffer, payload) ELSE c.buffer,
      sent |-> Append(c.sent, [id |-> payload.id, path |-> path, body |-> body,
                               delivered |-> delivered])]

\* Whether the next fetch can reach the API: the backend is down and comes up
\* at some moment; once a send was delivered the later ones are.
Reachable(s) == { d \in BOOLEAN : (s # <<>> /\ s[Len(s)].delivered) => d }

\* this.client.post(path, body) inside a method of Run or Step.
Post(path, body) ==
  /\ Len(sent) < MaxSends
  /\ \E delivered \in Reachable(sent) :
       LET c == post([buffer |-> buffer, sent |-> sent], bufferSize, path, body, delivered)
       IN buffer' = c.buffer /\ sent' = c.sent

\* initXRay(config), xray.startRun('p1', 'in1') and run.step('n1', {type:
\* 'filter'}) have run: the two constructors have posted.
InitSdk ==
  /\ runs = {} /\ steps = {} /\ step_summaries = {} /\ candidates = {}
  /\ lastCandidateJob = [k \in CandidateKeys |-> NoJob]
  /\ NoQuery /\ NoRequest
  /\ pc = <<>> /\ attemptsMade = <<>> /\ txn = <<>> /\ crashes = 0
  /\ log = <<>> /\ before = EmptyStore
  /\ bufferSize \in 0..MaxBuffer
  /\ \E d1 \in BOOLEAN, d2 \in BOOLEAN :
       LET c1 == post([buffer |-> <<>>, sent |-> <<>>], bufferSize, "/runs",
                      [run_id |-> "r1", pipeline |-> "p1", input |-> "in1",
                       started_at |-> "t1", status |-> "running"], d1)
           c2 == post(c1, bufferSize, "/steps",
                      [step_id |-> "s1", run_id |-> "r1", name |-> "n1",
                       type |-> "filter", metadata |-> "{}", pipeline |-> "p1"], d2)
       IN d2 \in Reachable(c1.sent) /\ buffer = c2.buffer /\ sent = c2.sent
  /\ runEnded = FALSE /\ stepEnded = FALSE
  /\ call = [op |-> "run.step", arg |-> NoRow]

Called(op, arg) ==
  /\ call' = [op |-> op, arg |-> arg]
  /\ UNCHANGED <<storeVars, queueVars, lastVars, seqVars, queryVars, apiVars, bufferSize>>

\* A Run.end that posts on every call.
RunEnd_everyCall(status) ==
  /\ Called("Run.end", [status |-> status])
  /\ runEnded' = TRUE
  /\ Post("/runs/r1", [ended_at |-> "t2", status |-> status])
  /\ UNCHANGED stepEnded

\* Run.end(status)
RunEnd(status) ==
  /\ Called("Run.end", [status |-> status])
  /\ IF runEnded THEN UNCHANGED <<runEnded, buffer, sent>>
     ELSE /\ runEnded' = TRUE
          /\ Post("/runs/r1", [ended_at |-> "t2", status |-> status])
  /\ UNCHANGED stepEnded

\* Step.end()
StepEnd ==
  /\ Called("Step.end", NoRow)
  /\ stepEnded' = TRUE
  /\ UNCHANGED <<runEnded, buffer, sent>>

\* Step.recordSummary(summary)
StepRecordSummary(summary) ==
  /\ Called("recordSummary", summary)
  /\ IF stepEnded THEN UNCHANGED <<buffer, sent>>
     ELSE Post("/steps/s1/summary", recordSummary("s1", "r1", summary))
  /\ UNCHANGED <<runEnded, stepEnded>>

\* Step.recordCandidate(candidateId, record)
StepRecordCandidate(candidateId, record) ==
  /\ Called("recordCandidate", [candidateId |-> candidateId, record |-> record])
  /\ IF stepEnded THEN UNCHANGED <<buffer, sent>>
     ELSE Post("/steps/s1/candidates",
               [candidate_id |-> candidateId, step_id |-> "s1", run_id |-> "r1",
                decision |-> record.decision, score |-> record.score,
                reason |-> record.reason])
  /\ UNCHANGED <<runEnded, stepEnded>>

\* A recordCandidates that does not look at `ended`.
recordCandidates_afterEnd(cs) ==
  IF Len(cs) = 0 THEN UNCHANGED <<buffer, sent>>
  ELSE Post("/steps/s1/candidates/bulk",
            [step_id |-> "s1", run_id |-> "r1",
             candidates |-> [i \in 1..Len(cs) |->
                               [candidate_id |-> cs[i].candidateId,
                                decision |-> cs[i].decision,
                                score |-> cs[i].score, reason |-> cs[i].reason]]])

\* The body of Step.recordCandidates(candidates).
recordCandidates(cs) ==
  IF stepEnded \/ Len(cs) = 0 THEN UNCHANGED <<buffer, sent>>
  ELSE Post("/steps/s1/candidates/bulk",
            [step_id |-> "s1", run_id |-> "r1",
             candidates |-> [i \in 1..Len(cs) |->
                               [candidate_id |-> cs[i].candidateId,
                                decision |-> cs[i].decision,
                                score |-> cs[i].score, reason |-> cs[i].reason]]])

StepRecordCandidates(cs) ==
  /\ Called("recordCandidates", [candidates |-> cs])
  /\ recordCandidates(cs)
  /\ UNCHANGED <<runEnded, stepEnded>>

\* The orders of 1..n, and Array.prototype.sort (stable) by score,
\* descending or ascending.
Orders(n) ==
  { p \in [1..n -> 1..n] : \A i, j \in 1..n : i # j => p[i] # p[j] }

sort(cs, descending) ==
  LET n == Len(cs)
      first(a, b) == IF descending THEN cs[a].score > cs[b].score
                     ELSE cs[a].score < cs[b].score
      p == CHOOSE q \in Orders(n) :
             \A i, j \in 1..n :
               i < j => (first(q[i], q[j])
                         \/ (cs[q[i]].score = cs[q[j]].score /\ q[i] < q[j]))
  IN [i \in 1..n |-> cs[p[i]]]

\* .slice(0, n).map(c => ({candidateId: c.id, decision: c.decision ||
\* defaultDecision, score: c.score, reason: c.reason}))
sample(cs, n, defaultDecision) ==
  [i \in 1..(IF n < Len(cs) THEN n ELSE Len(cs)) |->
     [candidateId |-> cs[i].id,
      decision |-> IF Truthy(cs[i].decision) THEN cs[i].decision ELSE defaultDecision,
      score |-> cs[i].score, reason |-> cs[i].reason]]

\* Step.recordTopCandidates(candidates, n)
StepRecordTopCandidates(cs, n) ==
  /\ Called("recordTopCandidates", [candidates |-> cs, n |-> n])
  /\ IF stepEnded \/ Len(cs) = 0 \/ n <= 0 THEN UNCHANGED <<buffer, sent>>
     ELSE recordCandidates(sample(sort(cs, TRUE), n, "accepted"))
  /\ UNCHANGED <<runEnded, stepEnded>>

\* Step.recordBottomCandidates(candidates, n)
StepRecordBottomCandidates(cs, n) ==
  /\ Called("recordBottomCandidates", [candidates |-> cs, n |-> n])
  /\ IF stepEnded \/ Len(cs) = 0 \/ n <= 0 THEN UNCHANGED <<buffer, sent>>
     ELSE recordCandidates(sample(sort(cs, FALSE), n, "rejected"))
  /\ UNCHANGED <<runEnded, stepEnded>>

\* Step.recordRandomSample(candidates, n): the shuffle gives any order.
StepRecordRandomSample(cs, n) ==
  /\ Called("recordRandomSample", [candidates |-> cs, n |-> n])
  /\ IF stepEnded \/ Len(cs) = 0 \/ n <= 0 THEN UNCHANGED <<buffer, sent>>
     ELSE \E p \in Orders(Len(cs)) :
            recordCandidates(sample([i \in 1..Len(cs) |-> cs[p[i]]], n, "accepted"))
  /\ UNCHANGED <<runEnded, stepEnded>>

\* XRayClient.flush(): send every buffered payload again, the buffer emptied.
Flush ==
  /\ Called("flush", NoRow)
  /\ IF bufferSize = 0 \/ Len(buffer) = 0 THEN UNCHANGED <<buffer, sent>>
     ELSE /\ Len(sent) + Len(buffer) <= MaxSends
          /\ buffer' = <<>>
          /\ \E delivered \in Reachable(sent) :
               sent' = sent \o [i \in 1..Len(buffer) |->
                                  [id |-> buffer[i].id, path |-> buffer[i].path,
                                   body |-> buffer[i].body,
                                   delivered |-> delivered]]
  /\ UNCHANGED <<runEnded, stepEnded>>

\* What the pipeline passes to the SDK.
Summaries ==
  { [inputCount |-> Num(100), outputCount |-> Num(25), rejectionBreakdown |-> Undef] }

Scored ==
  << [id |-> "c1", score |-> 1, reason |-> "low", decision |-> NULL],
     [id |-> "c2", score |-> 3, reason |-> NULL, decision |-> "rejected"] >>

NextSdk ==
  \/ \E status \in {"success", "error"} : RunEnd(status)
  \/ StepEnd
  \/ \E summary \in Summaries : StepRecordSummary(summary)
  \/ StepRecordCandidate("c1", [decision |-> "rejected", score |-> Num(1),
                                reason |-> "low"])
  \/ \E cs \in {<<>>, sample(Scored, 2, "accepted")} : StepRecordCandidates(cs)
  \/ \E cs \in {<<>>, Scored} : StepRecordTopCandidates(cs, 1)
  \/ \E n \in {0, 1} : StepRecordBottomCandidates(Scored, n)
  \/ StepRecordRandomSample(Scored, 1)
  \/ Flush

SpecSdk == InitSdk /\ [][NextSdk]_vars

-----------------------------------------------------------------------------
(* Properties *)

TypeOK ==
  /\ \A r \in runs : r.status \in RunStatuses
  /\ \A j \in Jobs : attemptsMade[j] \in 0..attempts

\* The jobs in the queue.
Queued == { JobTable[i] : i \in Jobs }

Completed(job) == \E i \in Jobs : JobTable[i] = job /\ pc[i] = "completed"

\* The last and the last-but-one entry of log.
Last == log[Len(log)]
Prev == log[Len(log) - 1]

\* No table holds two rows with the same primary key.
UniqueKeys ==
  /\ \A r1, r2 \in runs : r1.run_id = r2.run_id => r1 = r2
  /\ \A s1, s2 \in steps : s1.step_id = s2.step_id => s1 = s2
  /\ \A m1, m2 \in step_summaries : m1.step_id = m2.step_id => m1 = m2
  /\ \A c1, c2 \in candidates :
       (c1.candidate_id = c2.candidate_id /\ c1.step_id = c2.step_id) => c1 = c2

UpsertJobNames ==
  {"create-run", "create-step", "update-step-summary", "create-candidate"}

\* log ends with the same job processed twice in a row, the first time with success.
Replayed ==
  /\ Len(log) >= 2
  /\ Last.job = Prev.job
  /\ Prev.ok
  /\ Last.job.name \in UpsertJobNames

C9_LastWriteWins ==
  (/\ Len(log) >= 2
   /\ Last.job.name = "update-step-summary" /\ Last.ok
   /\ Prev.job.name = "update-step-summary" /\ Prev.ok
   /\ Prev.job.data.step_id = Last.job.data.step_id)
  => LET d == Last.job.data
     IN { m \in step_summaries : m.step_id = d.step_id }
          = { [step_id |-> d.step_id,
               rejected |-> rejectedOf(d),
               accepted |-> acceptedOf(d),
               rejection_breakdown |-> IF d.rejection_breakdown.t = "object"
                                       THEN d.rejection_breakdown.v ELSE EmptyObject] }

\* C9 witness: a summary with breakdown {a, b} followed by one with breakdown {c}.
C9_Witness ==
  /\ Len(log) >= 2
  /\ Prev.job = SummaryFromBreakdown /\ Prev.ok
  /\ Last.job = SummaryNoRunId /\ Last.ok

\* C10 (SpecSeq): after an update-step-summary job the stored summary has
\* accepted = output_count (0 when absent) and rejected = the sum of the
\* breakdown's values when a breakdown is supplied, otherwise input_count
\* (0 when absent) - accepted; {a:5, b:3} with output_count 2 stores 8 / 2 and
\* no breakdown with 100 / 25 stores 75 / 25.
C10_SummaryRule ==
  (Len(log) >= 1 /\ Last.job.name = "update-step-summary" /\ Last.ok)
  => LET d == Last.job.data
         out == IF d.output_count.t = "number" THEN d.output_count.v ELSE 0
         inp == IF d.input_count.t = "number" THEN d.input_count.v ELSE 0
     IN \E m \in step_summaries :
          /\ m.step_id = d.step_id
          /\ m.accepted = out
          /\ m.rejected = IF d.rejection_breakdown.t = "object"
                          THEN SumValues(d.rejection_breakdown.v)
                          ELSE inp - out
          /\ (d.rejection_breakdown = Obj([a |-> 5, b |-> 3]) /\ d.output_count = Num(2))
               => (m.rejected = 8 /\ m.accepted = 2)
          /\ (d.rejection_breakdown = Undef /\ d.input_count = Num(100)
                /\ d.output_count = Num(25))
               => (m.rejected = 75 /\ m.accepted = 25)

\* C10 witness: both examples have been processed, the breakdown one last.
C10_Witness ==
  /\ Len(log) >= 2
  /\ Prev.job = SummaryFromCounts /\ Prev.ok
  /\ Last.job = SummaryFromBreakdown /\ Last.ok
  /\ \E m \in step_summaries : m.rejected = 8 /\ m.accepted = 2

\* C6 (Spec): in every reachable Store state every Step row's run_id names a
\* Run row, and every StepSummary row and every Candidate row names a Step row.
C6_ReferentialIntegrity ==
  /\ \A s \in steps : \E r \in runs : r.run_id = s.run_id
  /\ \A m \in step_summaries : \E s \in steps : s.step_id = m.step_id
  /\ \A c \in candidates : \E s \in steps : s.step_id = c.step_id

\* C6 witness: all three child tables hold a row, and on the way a job's
\* attempt was failed by a foreign-key violation.
C6_Witness ==
  /\ steps # {} /\ step_summaries # {} /\ candidates # {}
  /\ \E j \in Jobs : attemptsMade[j] > 0

\* The candidate a job wrote last under the key k: a create-candidate job's
\* payload, or the last entry with that candidate_id of a bulk job.
WriteOf(j, k) ==
  IF j.name = "create-candidate" THEN j.data
  ELSE LET todo == validCandidates(j.data)
           n == CHOOSE n \in 1..Len(todo) :
                  /\ todo[n].candidate_id = k[1]
                  /\ \A m \in (n + 1)..Len(todo) : todo[m].candidate_id # k[1]
       IN todo[n]

\* C7 (Spec): there is at most one Candidate row per (candidate_id, step_id),
\* and it carries the decision, score and reason of the candidate write that
\* was processed last for that key (a create-candidate job, or a committed
\* bulk entry), never a mix with an earlier write.
C7_CandidateReplace ==
  /\ \A c \in candidates : <<c.candidate_id, c.step_id>> \in CandidateKeys
  /\ \A k \in CandidateKeys :
       LET rows == { c \in candidates : <<c.candidate_id, c.step_id>> = k }
           j == lastCandidateJob[k]
       IN /\ Cardinality(rows) <= 1
          /\ j # NoJob =>
               rows = { [candidate_id |-> k[1], step_id |-> k[2],
                         decision |-> WriteOf(JobTable[j], k).decision,
                         score |-> SqlParam(WriteOf(JobTable[j], k).score),
                         reason |-> WriteOf(JobTable[j], k).reason] }

\* C7 witness: two create-candidate jobs for one key with different decision,
\* score and reason have both been processed.
C7_Witness ==
  /\ Completed(CandidateAccepted) /\ Completed(CandidateRejected)
  /\ JobTable[lastCandidateJob[<<"c1", "s1">>]] = CandidateAccepted
  /\ Cardinality(candidates) = 1

\* C3 (Spec), as claimed: once a create-run job and a create-step job for the
\* same run have both been processed, in either order, there is one Run row and
\* its pipeline is the create-run job's, and one Step row linked to that run.
C3_RaceTolerance ==
  \A cr, cs \in Queued :
    (/\ Queued = {cr, cs}
     /\ cr.name = "create-run" /\ cs.name = "create-step"
     /\ cr.data.run_id = cs.data.run_id
     /\ Completed(cr) /\ Completed(cs))
    => /\ \E r \in runs : r.run_id = cr.data.run_id /\ r.pipeline = cr.data.pipeline
       /\ \E s \in steps : s.step_id = cs.data.step_id /\ s.run_id = cr.data.run_id
       /\ Cardinality(runs) = 1 /\ Cardinality(steps) = 1

TerminalStatuses == {"success", "error"}

\* C4 (SpecSeq), as claimed: once a Run row has status success or error, no
\* job processed later (a second update-run, a create-run delivered again, any
\* other job) changes its status or clears its ended_at.
C4_TerminalStatus ==
  [][\A r \in runs :
       r.status \in TerminalStatuses =>
         \E r2 \in runs' :
           /\ r2.run_id = r.run_id
           /\ r2.status = r.status
           /\ (r.ended_at # NULL => r2.ended_at # NULL)]_vars

\* C5 (Spec), as claimed: after a create-run job and an update-run job (terminal
\* status, with ended_at) for one run have both been processed, in either
\* order, the Run row has the update-run job's status and ended_at.
C5_EndEventReordering ==
  \A cr, ur \in Queued :
    (/\ Queued = {cr, ur}
     /\ cr.name = "create-run" /\ ur.name = "update-run"
     /\ cr.data.run_id = ur.data.run_id
     /\ ur.data.status \in TerminalStatuses /\ Truthy(ur.data.ended_at)
     /\ Completed(cr) /\ Completed(ur))
    => \E r \in runs :
         /\ r.run_id = cr.data.run_id
         /\ r.status = ur.data.status
         /\ r.ended_at = ur.data.ended_at

\* C8 (Spec), as claimed: after two update-step-summary jobs for one step, each
\* supplying input_count and output_count, have both completed, the Step's
\* output_count equals the StepSummary's accepted.
C8_AggregateConsistency ==
  \A a, b \in Queued :
    (/\ a # b
     /\ a.name = "update-step-summary" /\ b.name = "update-step-summary"
     /\ a.data.step_id = b.data.step_id
     /\ \A j \in {a, b} : j.data.input_count.t = "number" /\ j.data.output_count.t = "number"
     /\ Completed(a) /\ Completed(b))
    => \A s \in steps : \A m \in step_summaries :
         (s.step_id = a.data.step_id /\ m.step_id = s.step_id)
           => s.output_count = Num(m.accepted)

\* The Store after the five events of ConvergenceEvents processed in the order
\* the pipeline reported them.
ConvergedStore ==
  Store({ [run_id |-> "r1", pipeline |-> "p1", input |-> "in1", started_at |-> "t1",
           ended_at |-> "t2", status |-> "success"] },
        { [step_id |-> "s1", run_id |-> "r1", name |-> "n1", type |-> "filter",
           input_count |-> Num(100), output_count |-> Num(25), metadata |-> "m1"] },
        { [step_id |-> "s1", rejected |-> 75, accepted |-> 25,
           rejection_breakdown |-> EmptyObject] },
        { [candidate_id |-> "c1", step_id |-> "s1", decision |-> "accepted",
           score |-> Num(9), reason |-> NULL] })

AllCompleted == \A j \in Jobs : pc[j] = "completed"

\* C1 (SpecCrash), as claimed: whatever the processing order and the
\* redeliveries, once each of the five jobs has succeeded the Store is the one
\* the in-order processing ends in.
C1_Convergence ==
  (Queued = ConvergenceEvents /\ AllCompleted) => store = ConvergedStore

\* C1: the in-order final Store is reached, so a violation of C1_Convergence is
\* two runs of the same events ending in different Stores.
C1_InOrderReached ==
  Queued = ConvergenceEvents /\ AllCompleted /\ store = ConvergedStore

\* C11 (SpecSeq), as claimed: once the job that step.recordSummary({inputCount:
\* 100, outputCount: 25}) gives rise to has been processed, the stored summary
\* has rejected = inputCount - outputCount = 75 and accepted = outputCount = 25,
\* and the step, when a filter, is returned by the high-rejection query for a
\* threshold below its drop rate of 0.75.
C11_SdkSummaryWithoutBreakdown ==
  (Len(log) >= 1 /\ Last.job = SdkSummary /\ Last.ok)
    => /\ \E m \in step_summaries :
            m.step_id = "s1" /\ m.rejected = 100 - 25 /\ m.accepted = 25
       /\ (\E s \in steps : s.step_id = "s1" /\ s.type = "filter")
            => \E row \in highRejectionRows(steps, step_summaries, Rat(1, 2)) :
                 row.step_id = "s1"

\* A high-rejection query has been answered.
Queried == threshold # NullV

\* The summary of step s has a non-zero sum and a rate strictly above T.
RateAbove(m, T) ==
  LET sum == m.rejected + m.accepted
  IN /\ sum # 0
     /\ IF sum * T.den > 0
        THEN m.rejected * T.den > T.num * sum
        ELSE m.rejected * T.den < T.num * sum

\* The steps the high-rejection query is to return for threshold T.
HighRejectionSteps(T) ==
  { s \in steps : s.type = "filter"
                   /\ \E m \in step_summaries : m.step_id = s.step_id /\ RateAbove(m, T) }

\* C12 (SpecQuery): the result of findFilteringStepsWithHighRejectionRate(T)
\* lists, once each, exactly the filter steps that have a summary with
\* rejected + accepted # 0 and rejected / (rejected + accepted) > T (a rate
\* equal to T is excluded, a step of another type never appears), each row
\* with the step's summary counts, in non-increasing order of rate.
C12_HighRejectionResult ==
  Queried =>
    /\ { result[i].step_id : i \in 1..Len(result) }
         = { s.step_id : s \in HighRejectionSteps(threshold) }
    /\ Len(result) = Cardinality(HighRejectionSteps(threshold))
    /\ \A i \in 1..Len(result) :
         \E m \in step_summaries :
           /\ m.step_id = result[i].step_id
           /\ m.rejected = result[i].rejected /\ m.accepted = result[i].accepted
    /\ \A i, j \in 1..Len(result) :
         i < j =>
           LET a == result[i]
               b == result[j]
           IN (a.rejected + a.accepted > 0 /\ b.rejected + b.accepted > 0)
                => a.rejected * (b.rejected + b.accepted)
                     >= b.rejected * (a.rejected + a.accepted)

\* C12 witness: filter steps with rates 0.85, 0.95 and 0.9 queried with
\* threshold 0.9: only the 0.95 step is returned.
C12_Witness ==
  /\ threshold = DefaultThreshold
  /\ \A s \in steps : s.type = "filter"
  /\ { <<m.step_id, m.rejected, m.accepted>> : m \in step_summaries }
       = { <<"s1", 17, 3>>, <<"s2", 19, 1>>, <<"s3", 9, 1>> }
  /\ Len(result) = 1 /\ result[1].step_id = "s2"

\* C12 witness for the order: two rows of different rates were returned.
C12_WitnessOrdered ==
  /\ Queried /\ Len(result) >= 2
  /\ result[1].rejected * (result[2].rejected + result[2].accepted)
       > result[2].rejected * (result[1].rejected + result[1].accepted)

\* A filter step whose summary has rejected + accepted = 0.
ZeroSumSteps ==
  { s \in steps : s.type = "filter"
                   /\ \E m \in step_summaries :
                        m.step_id = s.step_id /\ m.rejected + m.accepted = 0 }

\* C13 (SpecQuery): a filter step whose summary has rejected + accepted = 0 is
\* in no result of the high-rejection query, whatever the threshold (0 and
\* negative ones included), and the query has a result for every threshold on
\* a Store that holds such a step.
C13_ZeroDenominatorExcluded ==
  /\ Queried => \A i \in 1..Len(result) :
                  \A s \in ZeroSumSteps : result[i].step_id # s.step_id
  /\ \A T \in Thresholds :
       findFilteringStepsWithHighRejectionRate(steps, step_summaries, T) # {}

\* C13 witness: a Store with an all-zero summary and a summary of rejected -1,
\* accepted 1, both of filter steps, queried with a negative threshold.
C13_Witness ==
  /\ Queried /\ threshold.num < 0
  /\ \E s1, s2 \in ZeroSumSteps :
       /\ \E m \in step_summaries : m.step_id = s1.step_id /\ m.rejected = 0
       /\ \E m \in step_summaries : m.step_id = s2.step_id /\ m.rejected = -1
  /\ Len(result) >= 1

\* The last job of log is `job` and its processor returned.
Processed(job) == Len(log) >= 1 /\ Last.job = job /\ Last.ok

\* C14 (SpecSeq), as claimed: when the create-run job is processed on a Store
\* that holds the placeholder ensureRunExists made for its run, the Run row
\* afterwards has the job's pipeline, input and started_at.
C14_PlaceholderRunUpdated ==
  (/\ Processed(CreateRunJob)
   /\ \E r \in before.runs : r.run_id = "r1" /\ r.input = "auto_created")
    => \E r \in runs :
         /\ r.run_id = "r1"
         /\ r.pipeline = CreateRunJob.data.pipeline
         /\ r.input = CreateRunJob.data.input
         /\ r.started_at = CreateRunJob.data.started_at

C16_CountsNotRegressed ==
  (Len(log) >= 1 /\ Last.job.name = "create-step" /\ Last.ok)
    => \A b \in before.steps :
         b.step_id = Last.job.data.step_id
           => steps = (before.steps \ {b})
                        \cup { [b EXCEPT !.run_id = Last.job.data.run_id,
                                         !.name = Last.job.data.name,
                                         !.type = Last.job.data.type,
                                         !.metadata = Last.job.data.metadata] }

\* C16 witness: a create-step job processed on a placeholder step that a
\* summary job had given the counts 100 and 25.
C16_Witness ==
  /\ Len(log) >= 1 /\ Last.job.name = "create-step" /\ Last.ok
  /\ \E b \in before.steps :
       /\ b.step_id = "s1" /\ b.type = "generate"
       /\ b.input_count = Num(100) /\ b.output_count = Num(25)
  /\ \E s \in steps :
       /\ s.step_id = "s1" /\ s.type = "filter" /\ s.name = "n1"
       /\ s.input_count = Num(100) /\ s.output_count = Num(25)

\* C17 (SpecCrash): in every interleaving of the statements of create-step
\* jobs (ensureRunExists: SELECT, then INSERT) and the create-run job for one
\* run id, redeliveries included, no attempt of these jobs fails, there is
\* never more than one Run row for the id and there is exactly one once any of
\* the jobs is past its ensureRunExists or createRun, and no step changes the
\* pipeline, input or started_at of a row that createRun wrote.
C17_EnsureRunExistsRaceSafe ==
  [][/\ \A j \in Jobs :
          JobTable[j].name \in {"create-run", "create-step"}
            => /\ attemptsMade'[j] = attemptsMade[j]
               /\ pc'[j] # "failed"
               /\ pc'[j] \in {"createStep", "return", "completed"}
                    => Cardinality({ r \in runs' : r.run_id = JobTable[j].data.run_id }) = 1
     /\ Cardinality({ r \in runs' : r.run_id = "r1" }) <= 1
     /\ \A r \in runs :
          r.input # "auto_created"
            => \E r2 \in runs' :
                 /\ r2.run_id = r.run_id /\ r2.pipeline = r.pipeline
                 /\ r2.input = r.input /\ r2.started_at = r.started_at
    ]_vars

\* C17 witness: two create-step jobs have both found the run absent and are
\* about to insert their placeholders, and createRun has written the row in
\* between.
C17_Witness ==
  /\ Queued = RunRaceEvents
  /\ \A j \in Jobs : JobTable[j].name = "create-step" => pc[j] = "insertRun"
  /\ Completed(CreateRunJob)
  /\ \E r \in runs : r.run_id = "r1" /\ r.input = CreateRunJob.data.input

\* The placeholder row ensureStepExists inserts for a job.
PlaceholderStep(d) ==
  [step_id |-> d.step_id, run_id |-> d.run_id, name |-> "auto-created",
   type |-> "generate", input_count |-> NullV, output_count |-> NullV,
   metadata |-> "auto_created"]

\* C18 (Spec): a statement of ensureStepExists never fails the attempt of its
\* job and always hands control on (to its INSERT or to the statement after the
\* call); it leaves runs, step_summaries and candidates alone; the SELECT
\* changes nothing and returns exactly when the step exists; the INSERT
\* changes nothing when the step exists or the run is absent and otherwise
\* adds the one placeholder Step.
C18_EnsureStepExistsSwallows ==
  [][\A j \in Jobs :
       (pc[j] \in {"getStep", "insertStep"} /\ pc'[j] # pc[j])
         => LET d == data(j)
                present == \E s \in steps : s.step_id = d.step_id
                runPresent == \E r \in runs : r.run_id = d.run_id
            IN /\ attemptsMade'[j] = attemptsMade[j]
               /\ pc'[j] \in {"insertStep", mainLabel(JobTable[j])}
               /\ runs' = runs /\ step_summaries' = step_summaries
               /\ candidates' = candidates
               /\ pc[j] = "getStep"
                    => /\ steps' = steps
                       /\ (pc'[j] = mainLabel(JobTable[j])) <=> present
               /\ pc[j] = "insertStep"
                    => /\ pc'[j] = mainLabel(JobTable[j])
                       /\ (present \/ ~runPresent) => steps' = steps
                       /\ (~present /\ runPresent)
                            => steps' = steps \cup {PlaceholderStep(d)}
    ]_vars

\* C18 witness: a summary job is past its ensureStepExists call on its first
\* attempt while neither its step nor its run is stored.
C18_Witness ==
  /\ "summaryCounts" \in Jobs
  /\ pc["summaryCounts"] = "upsertSummary"
  /\ attemptsMade["summaryCounts"] = 0
  /\ runs = {} /\ steps = {}

\* A summary or candidate job that names its run.
ChildJobWithRun(job) ==
  /\ job.name \in {"update-step-summary", "create-candidate"}
  /\ Truthy(job.data.run_id)

\* The row a summary or candidate job writes is stored.
ChildRowStored(job) ==
  IF job.name = "update-step-summary"
  THEN \E m \in step_summaries :
         /\ m.step_id = job.data.step_id
         /\ m.rejected = summaryOf(job.data).rejected
         /\ m.accepted = summaryOf(job.data).accepted
  ELSE \E c \in candidates :
         /\ c.candidate_id = job.data.candidate_id
         /\ c.step_id = job.data.step_id
         /\ c.decision = job.data.decision

\* The counts a job leaves on a step row that held `b`.
CountsAfter(job, b) ==
  IF job.name = "update-step-summary"
  THEN [input_count |-> IF job.data.input_count # Undef
                        THEN SqlParam(job.data.input_count) ELSE b.input_count,
        output_count |-> IF job.data.output_count # Undef
                         THEN SqlParam(job.data.output_count) ELSE b.output_count]
  ELSE [input_count |-> b.input_count, output_count |-> b.output_count]

\* C19 (SpecSeq): a summary or candidate job with run_id processed when the
\* run is stored and the step is not leaves a placeholder Step (type generate,
\* name auto-created) with its row and counts; processed when the step is
\* stored it keeps the step's name, type and metadata and stores its row; a
\* create-step job processed on a stored step gives it the job's name, type
\* and metadata, keeps its counts and leaves every summary and candidate row.
C19_StepRaceTolerance ==
  (Len(log) >= 1 /\ Last.ok)
    => LET job == Last.job
           d == job.data
       IN /\ (/\ ChildJobWithRun(job)
               /\ \E r \in before.runs : r.run_id = d.run_id
               /\ \A b \in before.steps : b.step_id # d.step_id)
                => /\ ChildRowStored(job)
                   /\ \E s \in steps :
                        /\ s = [PlaceholderStep(d) EXCEPT
                                  !.input_count = CountsAfter(job, PlaceholderStep(d)).input_count,
                                  !.output_count = CountsAfter(job, PlaceholderStep(d)).output_count]
                        /\ steps = before.steps \cup {s}
          /\ ChildJobWithRun(job)
                => \A b \in before.steps :
                     b.step_id = d.step_id
                       => /\ ChildRowStored(job)
                          /\ steps = (before.steps \ {b})
                               \cup { [b EXCEPT
                                        !.input_count = CountsAfter(job, b).input_count,
                                        !.output_count = CountsAfter(job, b).output_count] }
          /\ job.name = "create-step"
                => /\ step_summaries = before.step_summaries
                   /\ candidates = before.candidates
                   /\ \A b \in before.steps :
                        b.step_id = d.step_id
                          => \E s \in steps :
                               /\ s.step_id = d.step_id
                               /\ s.name = d.name /\ s.type = d.type
                               /\ s.metadata = d.metadata
                               /\ s.input_count = b.input_count
                               /\ s.output_count = b.output_count

\* C19 witness: create-run, then the summary job, then create-step: the
\* placeholder the summary job left has become the filter step, with the counts
\* 100 and 25 and the summary row in place.
C19_Witness ==
  /\ Len(log) = 3
  /\ log[1].job = CreateRunJob /\ log[1].ok
  /\ log[2].job = SummaryFromCounts /\ log[2].ok
  /\ log[3].job.name = "create-step" /\ log[3].ok
  /\ \E b \in before.steps : b.step_id = "s1" /\ b.type = "generate" /\ b.name = "auto-created"
  /\ \E s \in steps :
       /\ s.step_id = "s1" /\ s.type = "filter" /\ s.name = "n1"
       /\ s.input_count = Num(100) /\ s.output_count = Num(25)
  /\ \E m \in step_summaries : m.step_id = "s1" /\ m.rejected = 75 /\ m.accepted = 25

\* C20 (SpecFair), as claimed: when the create-run, create-step and
\* update-step-summary jobs of one step are all in the queues, the summary
\* job carrying run_id, then under fair scheduling with `attempts` attempts
\* per job the summary row is eventually stored.
C20_SummaryEventuallyPersisted ==
  (OrderingEvents \subseteq Queued)
    => <>(\E m \in step_summaries :
            m.step_id = SummaryFromCounts.data.step_id
              /\ m.rejected = 75 /\ m.accepted = 25)

\* The Store `st` can give the job neither its step nor a placeholder for it.
StepUnavailable(job, st) ==
  /\ \A b \in st.steps : b.step_id # job.data.step_id
  /\ \/ ~Truthy(job.data.run_id)
     \/ \A r \in st.runs : r.run_id # job.data.run_id

StepWriterNames == {"update-step-summary", "create-candidate", "create-candidates-bulk"}

C22_BoundedRetry ==
  [][\A j \in Jobs :
       /\ attemptsMade'[j] \in {attemptsMade[j], attemptsMade[j] + 1}
       /\ attemptsMade'[j] <= attempts
       /\ (pc'[j] = "failed") <=> (attemptsMade'[j] = attempts)
       /\ (pc[j] = "waiting" /\ (pc'[j] # "waiting" \/ attemptsMade'[j] # attemptsMade[j]))
            => attemptsMade[j] < attempts
       /\ pc[j] \in {"failed", "completed"}
            => (pc'[j] = pc[j] /\ attemptsMade'[j] = attemptsMade[j])
    ]_vars

\* C22 witness: one job is in the failed set after `attempts` failed attempts
\* and another has completed on its last allowed attempt.
C22_Witness ==
  /\ \E j \in Jobs : pc[j] = "failed" /\ attemptsMade[j] = attempts
  /\ \E k \in Jobs : pc[k] = "completed" /\ attemptsMade[k] = attempts - 1

Final(j) == pc[j] \in {"completed", "failed"}

\* C23 (SpecFairCrash): no step removes a job from the queue or moves a final
\* job, and under fair scheduling, worker crashes included, every job is
\* eventually completed or failed for good.
C23_NoJobLost ==
  /\ [][/\ DOMAIN pc' = DOMAIN pc
        /\ \A j \in Jobs : Final(j) => pc'[j] = pc[j]]_vars
  /\ <>[](\A j \in Jobs : Final(j))

\* C23 witness: a worker has crashed in the middle of a job, and the step and
\* summary jobs have both completed.
C23_Witness ==
  /\ crashes >= 1
  /\ "summaryCounts" \in Jobs
  /\ \A j \in Jobs : pc[j] = "completed"
  /\ \E m \in step_summaries : m.step_id = "s1"

\* C24 (SpecRedo): when a job that ran alone has completed, after any crashes
\* and redeliveries at any of its statements, the Store is the one an
\* uninterrupted run of its processor on the Store it started from returns
\* with; when the job has used up its attempts the Store is the one the
\* uninterrupted run throws with.
C24_SafeReexecution ==
  \A j \in Jobs :
    Final(j)
      => \E now \in NowValues :
           LET res == process(before, JobTable[j], now)
           IN /\ store = res.st
              /\ res.thrown <=> (pc[j] = "failed")

\* C24 witness: a summary job completed after MaxCrashes crashes and left the summary
\* and the counts of one uninterrupted run.
C24_Witness ==
  /\ crashes = MaxCrashes
  /\ "summaryCounts" \in Jobs /\ pc["summaryCounts"] = "completed"
  /\ before.step_summaries = {}
  /\ \E m \in step_summaries : m.step_id = "s1" /\ m.rejected = 75 /\ m.accepted = 25
  /\ \E b \in steps : b.step_id = "s1" /\ b.input_count = Num(100)

\* The rows a bulk job writes, in the order of its well-formed entries.
BatchRows(d) ==
  LET valid == validCandidates(d)
  IN [i \in 1..Len(valid) |->
        [candidate_id |-> valid[i].candidate_id, step_id |-> valid[i].step_id,
         decision |-> valid[i].decision, score |-> SqlParam(valid[i].score),
         reason |-> valid[i].reason]]

\* C25 (SpecRedo): while a create-candidates-bulk job runs, fails, is redelivered
\* after a crash or has ended, the candidates table is either the one the job
\* started from or that one with all rows of the batch upserted; it is the
\* latter when the job has completed and the former after any failed attempt,
\* and no written row outlives the attempt that wrote it.
C25_BulkAllOrNothing ==
  \A j \in Jobs :
    JobTable[j].name = "create-candidates-bulk"
      => LET all == commitCandidates(before.candidates, BatchRows(data(j)))
         IN /\ candidates \in {before.candidates, all}
            /\ pc[j] = "completed" => candidates = all
            /\ attemptsMade[j] >= 1 => candidates = before.candidates
            /\ pc[j] = "failed" => attemptsMade[j] = attempts
            /\ pc[j] \in {"waiting", "completed", "failed"} => txn[j] = <<>>

\* C25 witness: with its step stored, a batch failed on its second row after
\* the first was written; the attempt is counted, the transaction holds no row
\* and the table is the one the job started from.
C25_Witness ==
  /\ "bulkBadScore" \in Jobs
  /\ attemptsMade["bulkBadScore"] >= 1
  /\ \E b \in steps : b.step_id = "s1"
  /\ txn["bulkBadScore"] = <<>>
  /\ candidates = before.candidates
  /\ commitCandidates(before.candidates, BatchRows(BulkBadScore.data)) # before.candidates

\* An entry without candidate_id or with a decision outside the enumeration.
Malformed(c) == ~Truthy(c.candidate_id) \/ c.decision \notin Decisions

\* C26 (SpecApi): a processed create-candidates-bulk job leaves the candidates
\* table as it was when it fails and otherwise upserts exactly the rows of its
\* well-formed entries; no Candidate row ever lacks candidate_id, has a
\* decision outside the enumeration, or carries the id of a malformed entry
\* that no well-formed entry uses.
C26_BulkMalformedEntries ==
  /\ \A c \in candidates :
       /\ ~Malformed(c)
       /\ c.candidate_id # BadDecisionEntry.candidate_id
  /\ (Len(log) >= 1 /\ Last.job.name = "create-candidates-bulk")
       => LET items == Last.job.data.candidates
              wellFormed == { i \in 1..Len(items) : ~Malformed(items[i]) }
          IN IF Last.ok
             THEN /\ \A i \in wellFormed :
                       \E c \in candidates :
                         /\ c.candidate_id = items[i].candidate_id
                         /\ c.step_id = Last.job.data.step_id
                         /\ c.decision = items[i].decision
                  /\ candidates = commitCandidates(before.candidates,
                                                    BatchRows(Last.job.data))
                  /\ Len(BatchRows(Last.job.data)) = Cardinality(wellFormed)
             ELSE candidates = before.candidates

\* C26 witness: a batch of one well-formed and two malformed entries has been
\* processed with its step stored, and the table holds the well-formed row only.
C26_Witness ==
  /\ Len(log) >= 1 /\ Last.ok
  /\ Last.job.name = "create-candidates-bulk"
  /\ Last.job.data.candidates = <<WellFormedEntry, NoIdEntry, BadDecisionEntry>>
  /\ before.candidates = {}
  /\ Cardinality(candidates) = 1
  /\ \E c \in candidates : c.candidate_id = "c1" /\ c.decision = "rejected"

C28_RunStatusInvariant ==
  \A r \in runs : r.status \in RunStatuses

\* The requests C29 names, read off the request alone.
InvalidRequest(req) ==
  LET b == req.body
      Missing(f) == b[f] \in {NULL, ""}
  IN CASE req.route = "POST /runs" ->
            Missing("run_id") \/ Missing("pipeline") \/ Missing("started_at")
       [] req.route = "POST /steps" ->
            \/ Missing("step_id") \/ Missing("run_id") \/ Missing("name")
            \/ b.type \notin StepTypes
       [] req.route = "POST /steps/:id/candidates" ->
            Missing("candidate_id") \/ b.decision \notin Decisions
       [] req.route = "POST /steps/:id/candidates/bulk" ->
            ~b.candidates.isArray \/ b.candidates.items = <<>>
       [] OTHER -> FALSE

\* C29 (SpecValidation): a create-run request without run_id, pipeline or
\* started_at, a create-step request without a required field or with a type
\* outside the enumeration, a create-candidate request without candidate_id or
\* with a decision outside {accepted, rejected}, and a bulk request whose
\* candidates is not an array or is empty are answered 400, and the step that
\* handles them changes neither the queue nor the Store.
C29_ValidationBeforeEnqueue ==
  [][(log' = log /\ InvalidRequest(request'))
       => (response' = 400 /\ queue' = queue /\ store' = store)]_vars

\* C29 witness: with a job in the queue and a run in the Store, a bulk request
\* with an empty candidates array has been answered 400.
C29_Witness ==
  /\ request # NoRow /\ InvalidRequest(request)
  /\ request.route = "POST /steps/:id/candidates/bulk"
  /\ request.body.candidates = Arr(<<>>)
  /\ response = 400
  /\ Len(queue) >= 1
  /\ runs # {}

\* C30 (SpecApi): the step that handles a write request leaves the Store as
\* it is; its answer depends on the request and on queue.add alone: 400 for a
\* request C29 names, otherwise 200 or 201 with the job appended when queue.add
\* succeeded and 500 with the queue unchanged when it did not, whatever the
\* Store holds.  The Store changes only in a step in which a worker processes a
\* job, and that step changes neither the request nor its answer, whether the
\* job completes or fails.
C30_WritePathEnqueueOnly ==
  [][/\ (log' = log) => (store' = store)
     /\ (log' = log /\ ~InvalidRequest(request'))
          => \/ /\ response' \in {200, 201}
                /\ Len(queue') = Len(queue) + 1
                /\ queue'[Len(queue')].state = "waiting"
                /\ queue'[Len(queue')].job.name = handle(request').job.name
             \/ response' = 500 /\ queue' = queue
     /\ (log' = log /\ Len(queue') = Len(queue) + 1)
          => (response' \in {200, 201} /\ ~InvalidRequest(request'))
     /\ (log' # log) => (request' = request /\ response' = response
                          /\ Len(queue') = Len(queue))
    ]_vars

\* C30 witness: a create-candidate request for a step the Store does not hold
\* was answered 201, and its job has since failed for good.
C30_Witness ==
  /\ request # NoRow /\ request.route = "POST /steps/:id/candidates"
  /\ response = 201
  /\ steps = {} /\ candidates = {}
  /\ \E i \in 1..Len(queue) :
       /\ queue[i].job.name = "create-candidate"
       /\ queue[i].job.data.candidate_id = request.body.candidate_id
       /\ queue[i].state = "failed"

\* C33 (SpecCrash): the SELECT of ensureRunExists changes nothing and, when the
\* run id has a row, ends the call there; its INSERT on an absent run id adds
\* exactly one Run row, with status running, the hinted pipeline ("unknown"
\* without a hint), the auto-created input marker and no ended_at, and on a
\* run id that has a row by then changes nothing; neither touches another
\* table.
C33_PlaceholderRunContents ==
  [][\A j \in Jobs :
       LET id == JobTable[j].data.run_id
           hint == JobTable[j].data.pipeline
           present == \E r \in runs : r.run_id = id
       IN /\ (pc[j] = "getRun" /\ pc'[j] \in {"createStep", "insertRun"})
               => (store' = store /\ (pc'[j] = "createStep" <=> present))
          /\ (pc[j] = "insertRun" /\ pc'[j] = "createStep")
               => /\ steps' = steps /\ step_summaries' = step_summaries
                  /\ candidates' = candidates
                  /\ IF present THEN runs' = runs
                     ELSE \E r \in runs' :
                            /\ r \notin runs /\ runs' = runs \cup {r}
                            /\ r.run_id = id /\ r.status = "running"
                            /\ r.pipeline = (IF hint \in {NULL, ""} THEN "unknown" ELSE hint)
                            /\ r.input = "auto_created" /\ r.ended_at = NULL
    ]_vars

\* C33 witness: a create-step job without a hint is past its ensureRunExists,
\* which inserted the placeholder, and a second create-step job has found that
\* row with its SELECT.
C33_Witness ==
  /\ \E r \in runs : r.run_id = "r1" /\ r.input = "auto_created" /\ r.pipeline = "unknown"
  /\ \E j, k \in Jobs :
       /\ j # k
       /\ JobTable[j] = CreateStepJob(NULL) /\ pc[j] = "completed"
       /\ JobTable[k] = CreateStepJob("p1") /\ pc[k] = "createStep"

\* C35 (SpecSummary): after update-step-summary jobs whose input_count,
\* output_count and breakdown values are natural numbers, every stored summary
\* has rejected >= 0 and accepted >= 0.
C35_SummaryCountsNonNegative ==
  LET d == Last.job.data
      natural(x) == x.t = "number" /\ x.v >= 0
  IN (/\ log # <<>> /\ Last.ok /\ Last.job.name = "update-step-summary"
      /\ natural(d.input_count) /\ natural(d.output_count)
      /\ d.rejection_breakdown.t = "object"
           => \A k \in DOMAIN d.rejection_breakdown.v : d.rejection_breakdown.v[k] >= 0)
       => \A m \in step_summaries :
            m.step_id = d.step_id => (m.rejected >= 0 /\ m.accepted >= 0)

\* C36 (SpecSummary): no processed create-step or update-step-summary job
\* turns a non-null input_count or output_count of a Step row into null.
C36_KnownCountsStayKnown ==
  [][\A s \in steps : \A s2 \in steps' :
       s2.step_id = s.step_id
         => /\ (s.input_count # NullV => s2.input_count # NullV)
            /\ (s.output_count # NullV => s2.output_count # NullV)
    ]_vars

\* C31 (SpecRead): a step in which a read endpoint (list runs, get run, list
\* steps, get step, high-rejection query) answers leaves the Store and the
\* queue with its jobs unchanged, and when the Store answered, the status and
\* the body are those the endpoint's SELECTs give on the Store of that moment,
\* whatever jobs are waiting.
C31_ReadsArePure ==
  [][(log' = log /\ request'.route \in ReadRoutes)
       => /\ store' = store /\ queue' = queue
          /\ request'.body.err = NoFault
               => Answer(response', result')
                    \in get(store, [request' EXCEPT !.body = request'.body.filters])
    ]_vars

\* C31 witness: GET /steps/s1 has answered the step without a summary while
\* the update-step-summary job of that step is waiting in the queue.
C31_Witness ==
  /\ request # NoRow /\ request.route = "GET /steps/:id" /\ response = 200
  /\ result.step.step_id = "s1" /\ result.summary = NoRow
  /\ step_summaries = {}
  /\ \E i \in 1..Len(queue) :
       queue[i].state = "waiting" /\ queue[i].job.name = "update-step-summary"

\* C32 (SpecRead): when its backing connection fails, a read endpoint (the
\* query to the Store rejects with a connection error) and the synchronous
\* part of a write endpoint (the enqueue rejects) answer 503.
C32_UnavailableIs503 ==
  [][/\ (log' = log /\ request'.route \in ReadRoutes /\ request'.body.err # NoFault)
          => response' = 503
     /\ (log' = log /\ request'.route \notin ReadRoutes /\ queue' = queue)
          => response' = 503
    ]_vars

\* C34 (SpecSdk): a payload is in the buffer only if no send of it was
\* delivered, and no payload is sent again after a send of it was delivered
\* (so with every send delivered each post() reaches the API exactly once).
C34_BufferOnlyUndelivered ==
  /\ \A i \in 1..Len(buffer) : \A k \in 1..Len(sent) :
       sent[k].id = buffer[i].id => ~sent[k].delivered
  /\ \A k1, k2 \in 1..Len(sent) :
       (k1 < k2 /\ sent[k1].id = sent[k2].id) => ~sent[k1].delivered

\* The post() calls that carried an update-run request.
UpdateRunPosts(s) == { s[k].id : k \in { i \in 1..Len(s) : s[i].path = "/runs/r1" } }

\* C37 (SpecSdk): the first call of Run.end posts one update-run request with
\* the status it was called with; every later call, with the same or another
\* status, posts nothing; so the run has posted no update-run request before
\* its first end and exactly one after it.
C37_RunEndAtMostOnce ==
  [][/\ call'.op = "Run.end"
          => IF runEnded THEN sent' = sent /\ buffer' = buffer /\ runEnded'
             ELSE /\ runEnded'
                  /\ Len(sent') = Len(sent) + 1
                  /\ SubSeq(sent', 1, Len(sent)) = sent
                  /\ sent'[Len(sent')].path = "/runs/r1"
                  /\ sent'[Len(sent')].body.status = call'.arg.status
     /\ call'.op # "Run.end" => UpdateRunPosts(sent') = UpdateRunPosts(sent)
     /\ Cardinality(UpdateRunPosts(sent')) = IF runEnded' THEN 1 ELSE 0
    ]_vars

\* C37 witness: Run.end('success') posted the update-run request and a later
\* Run.end('error') posted nothing.
C37_Witness ==
  /\ runEnded /\ call.op = "Run.end" /\ call.arg.status = "error"
  /\ \E k \in 1..Len(sent) : sent[k].path = "/runs/r1" /\ sent[k].body.status = "success"
  /\ \A k \in 1..Len(sent) : sent[k].path = "/runs/r1" => sent[k].body.status = "success"

RecordCalls ==
  {"recordSummary", "recordCandidate", "recordCandidates", "recordTopCandidates",
   "recordBottomCandidates", "recordRandomSample"}

\* C38 (SpecSdk): once Step.end() has been called the step stays ended and a
\* call of recordSummary, recordCandidate, recordCandidates,
\* recordTopCandidates, recordBottomCandidates or recordRandomSample posts
\* nothing; before end() a call of recordSummary or recordCandidate posts
\* exactly one request, to the step's summary or candidates path.
C38_StepSilentAfterEnd ==
  [][/\ stepEnded => stepEnded'
     /\ (call'.op \in RecordCalls /\ stepEnded) => (sent' = sent /\ buffer' = buffer)
     /\ (call'.op \in {"recordSummary", "recordCandidate"} /\ ~stepEnded)
          => /\ Len(sent') = Len(sent) + 1
             /\ SubSeq(sent', 1, Len(sent)) = sent
             /\ sent'[Len(sent')].path =
                  (IF call'.op = "recordSummary" THEN "/steps/s1/summary"
                   ELSE "/steps/s1/candidates")
    ]_vars

\* C38 witness: recordSummary posted its request, Step.end() was called, and
\* recordCandidates with two candidates then posted nothing, although a
\* further send was within the bound.
C38_Witness ==
  /\ stepEnded /\ call.op = "recordCandidates" /\ Len(call.arg.candidates) = 2
  /\ Len(sent) = 3 /\ sent[3].path = "/steps/s1/summary"

\* C39 (SpecSdk): the buffer never holds more than bufferSize payloads (none
\* when bufferSize is 0); a post() made when the buffer is full (by
\* recordSummary or recordCandidate before Step.end, by the first Run.end) is
\* sent and not buffered; flush() leaves the buffer empty.
C39_BufferBound ==
  /\ Len(buffer) <= bufferSize
  /\ [][/\ Len(buffer') <= bufferSize'
        /\ (/\ Len(buffer) = bufferSize
            /\ \/ call'.op \in {"recordSummary", "recordCandidate"} /\ ~stepEnded
               \/ call'.op = "Run.end" /\ ~runEnded)
             => (buffer' = buffer /\ Len(sent') = Len(sent) + 1)
        /\ call'.op = "flush" => buffer' = <<>>
       ]_vars

\* C39 witness: with bufferSize 1 and the create-run payload in the buffer,
\* recordSummary has posted: its request was sent and the buffer still holds
\* that one payload.
C39_Witness ==
  /\ bufferSize = 1 /\ Len(buffer) = 1 /\ buffer[1].path = "/runs"
  /\ call.op = "recordSummary" /\ Len(sent) = 3
  /\ sent[3].path = "/steps/s1/summary"

====
